---- MODULE Spec2Model ----
(***************************************************************************)
(* LunaTV storage layer: PostgresStorage (src/lib/postgres.db.ts) and the  *)
(* HybridStorage composition of PostgresStorage with a Redis cache         *)
(* (src/lib/hybrid.db.ts).                                                 *)
(*                                                                         *)
(* Every storage call is an async function.  A task runs one call at a     *)
(* time; each step of a call is one round trip to a backend (one SQL       *)
(* statement, one Redis command), and the steps of different tasks         *)
(* interleave freely.                                                      *)
(***************************************************************************)
EXTENDS Integers, Sequences, FiniteSets, TLC

\* ------------------------------------------------------------------ bounds
\* Largest value of the database clock (CURRENT_TIMESTAMP / Date.now()).
MaxClock == 2
MaxKeywords == 25
MaxInstances == 2

\* ------------------------------------------------------- program constants
\* withRetry(operation, maxRetries = 3, delay = 1000)
maxRetries == 3
delay == 1000
\* hashPassword: const iterations = 100000; const keyLength = 64
iterations == 100000
keyLength == 64
\* TTLs handed to setToCache, in seconds
cacheTTL == 3600
TTL_EXISTS == 1800
TTL_USERS == 1800
TTL_USERINFO == 3600
TTL_CONFIG == 1800
TTL_LOGIN == 86400
\* SQL NULL of a TIMESTAMP column, and the JavaScript undefined of an optional
\* numeric property; every real timestamp is >= 1.
NULL == 0
undefined == 0
\* LIMIT 20 of the search history statements
HistoryLimit == 20

\* ----------------------------------------------------------- input domains
Tasks == {"t1", "t2"}
\* The tasks and the promise of DbManager.initialize(), which runs on its own.
Procs == Tasks \cup {"init"}
Names == {"alice", "bob"}
Passwords == {<<"pw1">>, <<"pw2">>}
Emails == {"a@x.com", "b@x.com"}
Salts == {"s1"}
Configs == {"cfg1", "cfg2"}
Payloads == {"p1", "p2"}
Sources == {<<"src">>}
ItemIds == {<<"i1">>, <<"i2">>}
Keywords == {"k1", "k2"}
Times == 1..MaxClock
\* UserInfo { email, createdAt, lastLoginAt? }
UserInfos == [email : Emails, createdAt : Times, lastLoginAt : {undefined} \cup Times]
RecordTables == {"favorites", "play_records", "skip_configs"}
\* process.env of a deployment on PostgreSQL and Redis
EnvNames == {"STORAGE_TYPE", "UPSTASH_URL", "UPSTASH_TOKEN", "DATABASE_URL", "POSTGRES_URL",
             "REDIS_URL"}
Deployment ==
    [v \in EnvNames |->
        CASE v = "STORAGE_TYPE" -> <<"hybrid">>
          [] v = "DATABASE_URL" -> <<"postgres://db">>
          [] v = "REDIS_URL" -> <<"redis://cache">>
          [] OTHER -> <<>>]
KvKinds == {"fav", "pr", "skip"}

VARIABLES
    users,          \* table users, in insertion (created_at, id) order
    admin_config,   \* table admin_config, in id order
    records,        \* tables favorites, play_records, skip_configs
    search_history, \* table search_history, in insertion order
    clock,          \* the database's CURRENT_TIMESTAMP
    redis,          \* the Redis keys HybridStorage uses as cache: key -> <<>> or <<entry>>
    kv,             \* the per-user records BaseRedisStorage keeps in Redis
    kvSearch,       \* the per-user search history BaseRedisStorage keeps in Redis
    cacheEnabled,   \* HybridStorage.cacheEnabled
    pgUp,           \* the PostgreSQL server is reachable
    redisUp,        \* the Redis server is reachable
    backend,        \* the storage the process was configured with: "pg" or "hybrid"
    pc,             \* per task: the call in flight and its position
    hist,           \* <<summary of the call before, the last completed call>>
    env,            \* process.env: variable -> <<>> (unset) or <<value>>
    storageInstance,    \* storage-config.ts: let storageInstance, <<>> (null) or <<instance>>
    dbStorageInstance,  \* db.ts: let storageInstance
    dbManager,      \* the DbManager: its fields storage and initPromise
    instances,      \* the storage objects constructed so far, numbered in order
    returned,       \* the instance getStorage() returned first since the last closeStorage()
    registered,     \* the registerUser calls that resolved, of users not deleted since
    added           \* per user: the keywords of the addSearchHistory calls that
                    \* resolved, each once, latest add first

pgVars == <<users, admin_config, records, search_history, clock>>
redisVars == <<redis, kv, kvSearch>>
envVars == <<cacheEnabled, pgUp, redisUp>>
vars == <<users, admin_config, records, search_history, clock, redis, kv, kvSearch,
          cacheEnabled, pgUp, redisUp, backend, pc, hist, registered, added,
          env, storageInstance, dbStorageInstance, dbManager, instances, returned>>
ghost == <<registered, added>>
factoryVars == <<storageInstance, dbStorageInstance, dbManager, instances, returned>>
process == <<backend, env, factoryVars>>

\* ------------------------------------------------------------ small helpers
Last(s) == s[Len(s)]
\* A string with '$' separators is the sequence of its segments: split('$') is
\* the sequence itself, startsWith('pbkdf2$') asks for a first segment "pbkdf2"
\* that is followed by a separator.
StartsWithScheme(str) == Len(str) >= 2 /\ str[1] = "pbkdf2"

\* ------------------------------------------------------------- credentials
\* pbkdf2(password, salt, iterations, keyLength, 'sha512'): the derived key, taken
\* to be collision free (equal keys only for equal inputs).
pbkdf2(password, salt, iter, len) ==
    [password |-> password, salt |-> salt, iter |-> iter, len |-> len]
\* derivedKey.toString('hex') and Buffer.from(key, 'hex'); a hex string is twice as
\* long as the bytes it encodes.
ToHex(dk) == [hex |-> dk]
FromHex(h) == h.hex
HexLength(h) == 2 * h.hex.len

\* hashPassword with the salt randomBytes(32) produced:
\* `pbkdf2$${iterations}$${salt}$${derivedKey.toString('hex')}`
hashPassword(password, salt) ==
    <<"pbkdf2", iterations, salt, ToHex(pbkdf2(password, salt, iterations, keyLength))>>

\* A string is held as its fields between '$' separators: the password pw1 is
\* <<"pw1">>, and 'pbkdf2$x' is <<"pbkdf2", "x">>.  hash.split('$') of a value
\* that has the prefix but not the four fields leaves key undefined, and
\* key.length throws.
verifyPasswordThrows(hash) == StartsWithScheme(hash) /\ Len(hash) < 4
\* Mutant: verifyPassword that compares every stored value as plaintext first.
verifyPassword_PlaintextFirst(password, hash) ==
    \/ hash = password
    \/ /\ StartsWithScheme(hash)
       /\ pbkdf2(password, hash[3], hash[2], HexLength(hash[4]) \div 2) = FromHex(hash[4])
\* verifyPassword(password, hash)
verifyPassword(password, hash) ==
    IF StartsWithScheme(hash)
    THEN LET iter == hash[2]
             salt == hash[3]
             key == hash[4]
             len == HexLength(key) \div 2
         IN  pbkdf2(password, salt, iter, len) = FromHex(key)
    ELSE hash = password

\* ------------------------------------------------------------------- JSON
\* JSON.stringify of a string, boolean or array, and of an object: a property
\* whose value is undefined is left out of the text.
\* A JavaScript value in a condition: undefined and '' are falsy.
Truthy(v) == v # <<>> /\ v[1] # ""
JSONstringify(v) == [json |-> v]
OptionalProps == {"lastLoginAt"}
JSONstringifyObject(o) ==
    [json |-> [f \in {g \in DOMAIN o : ~(g \in OptionalProps /\ o[g] = undefined)} |-> o[f]]]
JSONparse(text) == text.json
\* Reading a property of a parsed object: a missing property reads undefined.
Prop(o, f) == IF f \in DOMAIN o THEN o[f] ELSE undefined
\* Two UserInfo values are the same value: property by property.
SameInfo(a, b) ==
    /\ Prop(a, "email") = Prop(b, "email")
    /\ Prop(a, "createdAt") = Prop(b, "createdAt")
    /\ Prop(a, "lastLoginAt") = Prop(b, "lastLoginAt")

\* --------------------------------------------------------- composite keys
\* A source, an item id and a key are strings that '+' may occur in: such a
\* string is the sequence of its '+'-separated segments (a string without '+' is
\* one segment), and joining two strings with '+' puts their segments in a row.
\* generateStorageKey(source, id) = `${source}+${id}`
generateStorageKey(source, id) == source \o id
\* const [source, itemId] = key.split('+'): the first two segments; itemId is
\* undefined (<<>>) when the key has one segment only.
SplitSource(key) == <<key[1]>>
\* Mutant: a destructuring that binds itemId to the first segment as well.
SplitItemId_First(key) == <<key[1]>>
SplitItemId(key) == IF Len(key) >= 2 THEN <<key[2]>> ELSE <<>>
StorageKeys == {generateStorageKey(s, i) : s \in Sources, i \in ItemIds}

\* ------------------------------------------------------- SQL statements
\* Each operator is one statement: the table(s) after it, or the rows it returns.
UserRow(u, h, e, now) ==
    [username |-> u, password_hash |-> h, email |-> e, created_at |-> now,
     last_login |-> NULL, is_active |-> TRUE]
HasUser(tbl, u) == \E i \in 1..Len(tbl) : tbl[i].username = u
HasEmail(tbl, e) == \E i \in 1..Len(tbl) : tbl[i].email = e
\* Mutant: a users table whose email column is not UNIQUE.
InsertUserViolates_UsernameOnly(tbl, u, e) == HasUser(tbl, u)
\* The UNIQUE constraints of users(username) and users(email).
InsertUserViolates(tbl, u, e) == HasUser(tbl, u) \/ HasEmail(tbl, e)
\* INSERT INTO users (username, password_hash, email) VALUES ($1, $2, $3)
InsertUser(tbl, u, h, e, now) == Append(tbl, UserRow(u, h, e, now))
\* SELECT ... FROM users WHERE username = $1
SelectUser(tbl, u) == SelectSeq(tbl, LAMBDA r : r.username = u)
\* Mutant: the lookup of verifyUser without AND is_active = true.
SelectActiveUser_Any(tbl, u) == SelectSeq(tbl, LAMBDA r : r.username = u)
\* SELECT password_hash FROM users WHERE username = $1 AND is_active = true
SelectActiveUser(tbl, u) == SelectSeq(tbl, LAMBDA r : r.username = u /\ r.is_active)
\* SELECT 1 FROM users WHERE email = $1
SelectEmail(tbl, e) == SelectSeq(tbl, LAMBDA r : r.email = e)
\* SELECT username FROM users WHERE is_active = true ORDER BY created_at
SelectActiveUsernames(tbl) ==
    LET act == SelectSeq(tbl, LAMBDA r : r.is_active)
    IN  [i \in 1..Len(act) |-> act[i].username]
\* Mutant: an UPDATE of the password hash that changes no row.
UpdatePasswordHash_None(tbl, u, h) == tbl
\* UPDATE users SET password_hash = $1 ... WHERE username = $2
UpdatePasswordHash(tbl, u, h) ==
    [i \in 1..Len(tbl) |->
        IF tbl[i].username = u THEN [tbl[i] EXCEPT !.password_hash = h] ELSE tbl[i]]
\* UPDATE users SET email = $1 ... WHERE username = $2 (email is UNIQUE)
UpdateEmailViolates(tbl, u, e) ==
    HasUser(tbl, u) /\ \E i \in 1..Len(tbl) : tbl[i].email = e /\ tbl[i].username # u
UpdateEmail(tbl, u, e) ==
    [i \in 1..Len(tbl) |->
        IF tbl[i].username = u THEN [tbl[i] EXCEPT !.email = e] ELSE tbl[i]]
\* UPDATE users SET last_login = CURRENT_TIMESTAMP WHERE username = $1
UpdateLastLoginRow(tbl, u, now) ==
    [i \in 1..Len(tbl) |->
        IF tbl[i].username = u THEN [tbl[i] EXCEPT !.last_login = now] ELSE tbl[i]]
\* DELETE FROM users WHERE username = $1
DeleteUserRow(tbl, u) == SelectSeq(tbl, LAMBDA r : r.username # u)
\* Mutant: foreign keys declared without ON DELETE CASCADE.
CascadeDelete_None(tbl, u) == tbl
\* ON DELETE CASCADE of the tables that reference users(username)
CascadeDelete(tbl, u) == SelectSeq(tbl, LAMBDA r : r.username # u)

\* INSERT INTO <table> (username, source, item_id, data) VALUES (...)
\* ON CONFLICT (username, source, item_id) DO UPDATE SET data = $4
RecordRow(u, s, i, d) == [username |-> u, source |-> s, item_id |-> i, data |-> d]
SameKey(r, u, s, i) == r.username = u /\ r.source = s /\ r.item_id = i
\* Mutant: a plain INSERT, on a table without the UNIQUE key.
Upsert_InsertOnly(tbl, u, s, i, d) == Append(tbl, RecordRow(u, s, i, d))
Upsert(tbl, u, s, i, d) ==
    IF \E n \in 1..Len(tbl) : SameKey(tbl[n], u, s, i)
    THEN [n \in 1..Len(tbl) |->
            IF SameKey(tbl[n], u, s, i) THEN [tbl[n] EXCEPT !.data = d] ELSE tbl[n]]
    ELSE Append(tbl, RecordRow(u, s, i, d))
\* SELECT ... FROM <table> WHERE username = $1 AND source = $2 AND item_id = $3
SelectRecord(tbl, u, s, i) == SelectSeq(tbl, LAMBDA r : SameKey(r, u, s, i))
\* SELECT source, item_id, data FROM <table> WHERE username = $1
SelectRecordsOf(tbl, u) == SelectSeq(tbl, LAMBDA r : r.username = u)
\* DELETE FROM <table> WHERE username = $1 AND source = $2 AND item_id = $3
DeleteRecord(tbl, u, s, i) == SelectSeq(tbl, LAMBDA r : ~SameKey(r, u, s, i))

\* ---------------------------------------------------------------- cache keys
\* getCacheKey(prefix, ...keys) = `cache:${prefix}:${keys.join(':')}`
getCacheKey(prefix, key) == <<"cache", prefix, key>>
UserPrefixes == {"user", "user_exists", "userinfo", "login"}
CacheKeys ==
    {getCacheKey(p, u) : p \in UserPrefixes, u \in Names}
        \cup {getCacheKey("users", "all"), getCacheKey("admin", "config")}
\* What setEx(key, ttl, value) stores under a key.
CacheEntry(text, ttl) == [value |-> text, ttl |-> ttl]

\* ------------------------------------------------------------ calls in flight
Idle ==
    [op |-> "idle", layer |-> "-", arg |-> <<>>, step |-> "-", tries |-> 0,
     loc |-> <<>>, pgOut |-> <<>>, seen |-> <<>>, cacheLog |-> <<>>, known |-> {},
     failed |-> <<>>, before |-> <<>>, redisOut |-> <<>>, settled |-> FALSE]
NoHistory == [n \in Names |-> <<>>]
\* The calls that resolve the storage, and what such a call finds: the state of
\* DbManager.initPromise, the number of storage objects constructed, the instance
\* getStorage() is known to return.
FactoryOps == {"getStorage", "createStorage", "db", "closeStorage"}
Resolution ==
    [promise |-> dbManager.initPromise, created |-> Len(instances), returned |-> returned]
\* The rows of all tables.
Db == [users |-> users, admin_config |-> admin_config, records |-> records,
       search_history |-> search_history]
\* A call that has just been made: `layer` is the class whose method was called,
\* `known` the users whose registration had resolved by then, `before` the rows
\* a clearAllData found.
NewCall(op, layer, arg, step) ==
    [op |-> op, layer |-> layer, arg |-> arg, step |-> step, tries |-> 0,
     loc |-> <<>>, pgOut |-> <<>>, seen |-> <<>>, cacheLog |-> <<>>,
     known |-> {registered[i].u : i \in 1..Len(registered)}, failed |-> <<>>,
     before |-> IF op \in {"clearAllData", "verifyUser", "db.clearAllData"} THEN <<Db>>
                ELSE IF op \in FactoryOps THEN <<Resolution>> ELSE <<>>,
     redisOut |-> <<>>, settled |-> FALSE]
At(t, op, step) == pc[t].op = op /\ pc[t].step = step
AllIdle == \A t \in Tasks : pc[t].op = "idle"
\* Of the call before the last the history keeps what was called and how it went.
Summary(e) == [task |-> e.task, op |-> e.op, layer |-> e.layer, arg |-> e.arg,
               ok |-> e.ok, cacheLog |-> e.cacheLog]
Push(h, e) == <<Summary(h[2]), e>>
Entry(t, frame, ok, val) ==
    [task |-> t, op |-> frame.op, layer |-> frame.layer, arg |-> frame.arg,
     ok |-> ok, val |-> val, pgOut |-> frame.pgOut, seen |-> frame.seen,
     cacheLog |-> frame.cacheLog, known |-> frame.known, failed |-> frame.failed,
     before |-> frame.before, redisOut |-> frame.redisOut]
\* The call of task t settles: resolved with val (ok) or rejected (~ok).
Registration(arg) == [u |-> arg.u, pw |-> arg.pw, email |-> arg.email]
Finish(t, frame, ok, val) ==
    /\ pc' = [pc EXCEPT ![t] = Idle]
    /\ hist' = Push(hist, Entry(t, frame, ok, val))
    /\ registered' =
          IF frame.op = "registerUser" /\ ok
          THEN Append(registered, Registration(frame.arg))
          ELSE IF frame.op = "deleteUser" /\ frame.pgOut # <<>> /\ frame.pgOut[1].ok
          THEN SelectSeq(registered, LAMBDA r : r.u # frame.arg.u)
          ELSE IF frame.op = "clearAllData" /\ frame.pgOut # <<>> /\ frame.pgOut[1].ok
          THEN <<>>
          ELSE registered
    /\ added' =
          IF frame.op = "addSearchHistory" /\ ok
          THEN [added EXCEPT ![frame.arg.u] =
                   <<frame.arg.keyword>> \o SelectSeq(@, LAMBDA k : k # frame.arg.keyword)]
          ELSE IF frame.op = "deleteUser" /\ frame.pgOut # <<>> /\ frame.pgOut[1].ok
          THEN [added EXCEPT ![frame.arg.u] = <<>>]
          ELSE IF frame.op = "clearAllData" /\ ok
          THEN NoHistory
          ELSE added
    /\ UNCHANGED process
Goto(t, frame, step) ==
    /\ pc' = [pc EXCEPT ![t] = [frame EXCEPT !.step = step]]
    /\ UNCHANGED <<hist, ghost, process>>
\* Go on at `next`, or resolve with val when the method has nothing left to do.
Advance(t, frame, next, val) ==
    IF next = "return" THEN Finish(t, frame, TRUE, val) ELSE Goto(t, frame, next)
\* A call is made by task t.  `alone` is the scheduling of the specification:
\* sequential callers make a call only when no other call is in flight.
Call(t, alone, op, arg, step) ==
    /\ pc[t].op = "idle"
    /\ alone => (t = "t1" /\ AllIdle)
    /\ pc' = [pc EXCEPT ![t] = NewCall(op, backend, arg, step)]
    /\ UNCHANGED <<pgVars, redisVars, envVars, hist, ghost, process>>

\* ------------------------------------------------------------------ withRetry
\* The error an attempt throws: the connection is refused while the database is
\* down; a statement that ran and failed broke a constraint.
ErrorNow == IF ~pgUp THEN "connection refused" ELSE "constraint"
\* What the caught attempt leaves behind: its error and the wait that followed it
\* (<<>> when withRetry rethrew without waiting).
FailedAttempt(error, slept) == [error |-> error, slept |-> slept]
\* Mutant: a catch that gives up one attempt later.
Caught_OneMore(frame, first, error) ==
    LET i == frame.tries
    IN  IF i = maxRetries
        THEN [frame EXCEPT !.pgOut = <<[ok |-> FALSE, val |-> <<>>, error |-> error]>>,
                           !.failed = Append(@, FailedAttempt(error, <<>>))]
        ELSE [frame EXCEPT !.tries = i + 1, !.step = first,
                           !.failed = Append(@, FailedAttempt(error, <<delay * 2^i>>))]
\* The catch of withRetry: attempt i threw `error`.  When i = maxRetries - 1 the
\* error is rethrown (pgOut); else withRetry waits delay * 2^i and runs the
\* operation again from its first statement.
Caught(frame, first, error) ==
    LET i == frame.tries
    IN  IF i = maxRetries - 1
        THEN [frame EXCEPT !.pgOut = <<[ok |-> FALSE, val |-> <<>>, error |-> error]>>,
                           !.failed = Append(@, FailedAttempt(error, <<>>))]
        ELSE [frame EXCEPT !.tries = i + 1, !.step = first,
                           !.failed = Append(@, FailedAttempt(error, <<delay * 2^i>>))]
Rethrown(frame) == frame.pgOut # <<>> /\ ~frame.pgOut[1].ok
\* The PostgresStorage method rejects when withRetry rethrows, and so does the
\* HybridStorage method that awaits it.
withRetry(t, first, error) ==
    LET frame == Caught(pc[t], first, error)
    IN  IF Rethrown(frame)
        THEN Finish(t, frame, FALSE, <<>>)
        ELSE /\ pc' = [pc EXCEPT ![t] = frame]
             /\ UNCHANGED <<hist, ghost, process>>
withRetryCatch(t, first) == withRetry(t, first, ErrorNow)
\* The PostgresStorage method resolved with val.  Called directly it settles the
\* call; awaited by a HybridStorage method, that method goes on at `next`.
PgResolved(t, val, next) ==
    LET frame == [pc[t] EXCEPT !.pgOut = <<[ok |-> TRUE, val |-> val, error |-> "none"]>>,
                               !.loc = val, !.tries = 0, !.failed = <<>>]
    IN  IF pc[t].layer = "pg"
        THEN Finish(t, frame, TRUE, val)
        ELSE Advance(t, frame, next, val)

\* ------------------------------------------------- HybridStorage cache helpers
\* Mutant: getFromCache that treats a present key as absent.
getFromCache_NoHit(t, key, next) ==
    LET status == IF ~cacheEnabled THEN "off"
                  ELSE IF ~redisUp THEN "error"
                  ELSE IF redis[key] = <<>> THEN "miss" ELSE "hit"
        frame == [pc[t] EXCEPT !.loc = <<>>, !.seen = redis[key],
                               !.cacheLog = Append(@, status)]
    IN  /\ Goto(t, frame, next)
        /\ UNCHANGED <<pgVars, redisVars, envVars>>
\* Mutant: getFromCache that lets the error of the Redis read reach the caller.
getFromCache_Rethrow(t, key, next) ==
    LET status == IF ~cacheEnabled THEN "off"
                  ELSE IF ~redisUp THEN "error"
                  ELSE IF redis[key] = <<>> THEN "miss" ELSE "hit"
        got == IF status = "hit" THEN <<JSONparse(redis[key][1].value)>> ELSE <<>>
        frame == [pc[t] EXCEPT !.loc = got, !.seen = redis[key],
                               !.cacheLog = Append(@, status)]
    IN  /\ IF status = "error" THEN Finish(t, frame, FALSE, <<>>)
           ELSE IF got # <<>> THEN Finish(t, frame, TRUE, got) ELSE Goto(t, frame, next)
        /\ UNCHANGED <<pgVars, redisVars, envVars>>
\* getFromCache(key): null when the cache is disabled, the read throws or the
\* key is absent; else JSON.parse of the text.  The caller returns a value that
\* is not null (checkUserExist: cached !== null) or that is truthy (the others:
\* an array or an object, which always is), and goes on at `next` otherwise.
getFromCache(t, key, next) ==
    LET status == IF ~cacheEnabled THEN "off"
                  ELSE IF ~redisUp THEN "error"
                  ELSE IF redis[key] = <<>> THEN "miss" ELSE "hit"
        got == IF status = "hit" THEN <<JSONparse(redis[key][1].value)>> ELSE <<>>
        frame == [pc[t] EXCEPT !.loc = got, !.seen = redis[key],
                               !.cacheLog = Append(@, status)]
    IN  /\ IF got # <<>> THEN Finish(t, frame, TRUE, got) ELSE Goto(t, frame, next)
        /\ UNCHANGED <<pgVars, redisVars, envVars>>

\* setToCache(key, value, ttl): setEx(key, ttl || cacheTTL, JSON.stringify(value));
\* nothing when the cache is disabled; a failure is logged and swallowed.
setToCacheEffect(key, text, ttl) ==
    IF cacheEnabled /\ redisUp
    THEN redis' = [redis EXCEPT ![key] = <<CacheEntry(text, IF ttl # 0 THEN ttl ELSE cacheTTL)>>]
    ELSE UNCHANGED redis
CacheStatus(done) == IF ~cacheEnabled THEN "off" ELSE IF ~redisUp THEN "error" ELSE done
Logged(frame, status) == [frame EXCEPT !.cacheLog = Append(@, status)]

\* deleteFromCache(key): del(key); nothing when the cache is disabled; a failure is
\* logged and swallowed.
deleteFromCacheEffect(keys) ==
    IF cacheEnabled /\ redisUp
    THEN redis' = [k \in DOMAIN redis |-> IF k \in keys THEN <<>> ELSE redis[k]]
    ELSE UNCHANGED redis
deleteFromCache(t, keys, next) ==
    /\ deleteFromCacheEffect(keys)
    /\ Advance(t, Logged(pc[t], CacheStatus("del")), next, <<>>)
    /\ UNCHANGED <<pgVars, kv, kvSearch, envVars>>
setToCache(t, key, text, ttl, next, val) ==
    /\ setToCacheEffect(key, text, ttl)
    /\ Advance(t, Logged(pc[t], CacheStatus("set")), next, val)
    /\ UNCHANGED <<pgVars, kv, kvSearch, envVars>>

\* ============================================================ PostgresStorage
\* Each action is the withRetry body of one method: pool.connect() throws while
\* the server is unreachable, a statement throws on a constraint violation.

\* registerUser(userName, password, email); the hash is computed before withRetry
PostgresStorage_registerUser(t) ==
    /\ At(t, "registerUser", "pg")
    /\ LET a == pc[t].arg IN
       IF pgUp /\ ~InsertUserViolates(users, a.u, a.email)
       THEN /\ users' = InsertUser(users, a.u, hashPassword(a.pw, a.salt), a.email, clock)
            /\ PgResolved(t, <<>>, "del_user")
       ELSE /\ withRetryCatch(t, "pg")
            /\ UNCHANGED users
    /\ UNCHANGED <<admin_config, records, search_history, clock, redisVars, envVars>>
\* The INSERT of registerUser is applied, but the connection is lost before the
\* database's acknowledgement arrives: the attempt throws.
PostgresStorage_registerUser_AckLost(t) ==
    /\ At(t, "registerUser", "pg")
    /\ LET a == pc[t].arg IN
       /\ pgUp /\ ~InsertUserViolates(users, a.u, a.email)
       /\ users' = InsertUser(users, a.u, hashPassword(a.pw, a.salt), a.email, clock)
       /\ withRetry(t, "pg", "connection terminated")
    /\ UNCHANGED <<admin_config, records, search_history, clock, redisVars, envVars>>

\* updateLastLogin(userName), also the tail of verifyUser
UpdateLastLoginStep(t, step, val, next) ==
    /\ pc[t].step = step
    /\ IF pgUp
       THEN /\ users' = UpdateLastLoginRow(users, pc[t].arg.u, clock)
            /\ PgResolved(t, val, next)
       ELSE /\ withRetryCatch(t, step)
            /\ UNCHANGED users
    /\ UNCHANGED <<admin_config, records, search_history, clock, redisVars, envVars>>
PostgresStorage_updateLastLogin(t) ==
    /\ pc[t].op = "updateLastLogin"
    /\ UpdateLastLoginStep(t, "pg", <<>>, "del_userinfo")

\* verifyUser(userName, password)
PostgresStorage_verifyUser(t) ==
    /\ pc[t].op = "verifyUser"
    /\ \/ /\ pc[t].step = "pg"
          /\ LET rows == SelectActiveUser(users, pc[t].arg.u) IN
             IF ~pgUp THEN withRetryCatch(t, "pg")
             ELSE IF Len(rows) = 0 THEN PgResolved(t, <<FALSE>>, "return")
             ELSE IF verifyPasswordThrows(rows[1].password_hash)
                  THEN Finish(t, [pc[t] EXCEPT !.seen = <<rows[1].password_hash>>], FALSE, <<>>)
             ELSE IF verifyPassword(pc[t].arg.pw, rows[1].password_hash)
                  THEN Goto(t, [pc[t] EXCEPT !.tries = 0, !.failed = <<>>], "pg_login")
                  ELSE PgResolved(t, <<FALSE>>, "return")
          /\ UNCHANGED <<pgVars, redisVars, envVars>>
       \/ UpdateLastLoginStep(t, "pg_login", <<TRUE>>, "set_login")

\* A method that is one SELECT: resolves with Result.
PgQuery(t, op, val, next) ==
    /\ At(t, op, "pg")
    /\ IF pgUp THEN PgResolved(t, val, next) ELSE withRetryCatch(t, "pg")
    /\ UNCHANGED <<pgVars, redisVars, envVars>>
\* checkUserExist(userName): result.rows.length > 0
PostgresStorage_checkUserExist(t) ==
    PgQuery(t, "checkUserExist", <<Len(SelectUser(users, pc[t].arg.u)) > 0>>, "set")
\* checkEmailExist(email)
PostgresStorage_checkEmailExist(t) ==
    PgQuery(t, "checkEmailExist", <<Len(SelectEmail(users, pc[t].arg.email)) > 0>>, "return")
\* getAllUsers()
PostgresStorage_getAllUsers(t) ==
    PgQuery(t, "getAllUsers", <<SelectActiveUsernames(users)>>, "set")
\* getUserInfo(userName): null (<<>>) when there is no row
RowUserInfo(row) ==
    [email |-> row.email, createdAt |-> row.created_at,
     lastLoginAt |-> IF row.last_login # NULL THEN row.last_login ELSE undefined]
PgUserInfo(tbl, u) ==
    LET rows == SelectUser(tbl, u)
    IN  IF Len(rows) = 0 THEN <<>> ELSE <<RowUserInfo(rows[1])>>
PostgresStorage_getUserInfo(t) ==
    PgQuery(t, "getUserInfo", PgUserInfo(users, pc[t].arg.u),
            IF PgUserInfo(users, pc[t].arg.u) # <<>> THEN "set" ELSE "return")

\* changePassword(userName, newPassword); the hash is computed before withRetry
PostgresStorage_changePassword(t) ==
    /\ At(t, "changePassword", "pg")
    /\ LET a == pc[t].arg IN
       IF pgUp
       THEN /\ users' = UpdatePasswordHash(users, a.u, hashPassword(a.pw, a.salt))
            /\ PgResolved(t, <<>>, "del_login")
       ELSE /\ withRetryCatch(t, "pg")
            /\ UNCHANGED users
    /\ UNCHANGED <<admin_config, records, search_history, clock, redisVars, envVars>>

\* setUserInfo(userName, userInfo): only the email is stored
PostgresStorage_setUserInfo(t) ==
    /\ At(t, "setUserInfo", "pg")
    /\ LET a == pc[t].arg IN
       IF pgUp /\ ~UpdateEmailViolates(users, a.u, a.info.email)
       THEN /\ users' = UpdateEmail(users, a.u, a.info.email)
            /\ PgResolved(t, <<>>, "set")
       ELSE /\ withRetryCatch(t, "pg")
            /\ UNCHANGED users
    /\ UNCHANGED <<admin_config, records, search_history, clock, redisVars, envVars>>

\* deleteUser(userName): the foreign keys delete the user's records with the row
PostgresStorage_deleteUser(t) ==
    /\ At(t, "deleteUser", "pg")
    /\ LET u == pc[t].arg.u IN
       IF pgUp
       THEN /\ users' = DeleteUserRow(users, u)
            /\ records' = [tb \in RecordTables |-> CascadeDelete(records[tb], u)]
            /\ search_history' = CascadeDelete(search_history, u)
            /\ PgResolved(t, <<>>, "del_caches")
       ELSE /\ withRetryCatch(t, "pg")
            /\ UNCHANGED <<users, records, search_history>>
    /\ UNCHANGED <<admin_config, clock, redisVars, envVars>>

\* getAdminConfig(): SELECT config_data FROM admin_config ORDER BY id DESC LIMIT 1
PgAdminConfig(tbl) == IF Len(tbl) = 0 THEN <<>> ELSE <<JSONparse(Last(tbl).config_data)>>
PostgresStorage_getAdminConfig(t) ==
    PgQuery(t, "getAdminConfig", PgAdminConfig(admin_config),
            IF PgAdminConfig(admin_config) # <<>> THEN "set" ELSE "return")

\* setAdminConfig(config): DELETE FROM admin_config, then INSERT, on one
\* connection without a transaction
PostgresStorage_setAdminConfig(t) ==
    /\ pc[t].op = "setAdminConfig"
    /\ \/ /\ pc[t].step = "pg"
          /\ IF pgUp
             THEN admin_config' = <<>> /\ Goto(t, pc[t], "pg_insert")
             ELSE withRetryCatch(t, "pg") /\ UNCHANGED admin_config
       \/ /\ pc[t].step = "pg_insert"
          /\ IF pgUp
             THEN /\ admin_config' =
                        Append(admin_config, [config_data |-> JSONstringify(pc[t].arg.cfg)])
                  /\ PgResolved(t, <<>>, "set")
             ELSE withRetryCatch(t, "pg") /\ UNCHANGED admin_config
    /\ UNCHANGED <<users, records, search_history, clock, redisVars, envVars>>

\* ---------------------------------------------------------- per-user records
\* The foreign key username REFERENCES users(username) of the record tables.
ForeignKeyViolates(tbl, u) == ~HasUser(tbl, u)
\* The Record<string, T> built from rows: `${row.source}+${row.item_id}` -> data
RecordMap(rows) ==
    LET KeyOf(n) == generateStorageKey(rows[n].source, rows[n].item_id)
        LastOf(k) == CHOOSE n \in 1..Len(rows) :
                        KeyOf(n) = k /\ \A m \in n+1..Len(rows) : KeyOf(m) # k
    IN  [k \in {KeyOf(n) : n \in 1..Len(rows)} |-> JSONparse(rows[LastOf(k)].data)]
\* The INSERT ... ON CONFLICT ... DO UPDATE of setFavorite, setPlayRecord and
\* setSkipConfig on table tb, for the key (s, i)
PgUpsert(t, op, tb, s, i) ==
    /\ At(t, op, "pg") /\ pc[t].layer = "pg"
    /\ LET a == pc[t].arg IN
       IF pgUp /\ ~ForeignKeyViolates(users, a.u)
       THEN /\ records' = [records EXCEPT ![tb] = Upsert(@, a.u, s, i, JSONstringify(a.data))]
            /\ PgResolved(t, <<>>, "return")
       ELSE /\ withRetryCatch(t, "pg")
            /\ UNCHANGED records
    /\ UNCHANGED <<users, admin_config, search_history, clock, redisVars, envVars>>
\* The DELETE of deleteFavorite, deletePlayRecord and deleteSkipConfig
PgDelete(t, op, tb, s, i) ==
    /\ At(t, op, "pg") /\ pc[t].layer = "pg"
    /\ IF pgUp
       THEN /\ records' = [records EXCEPT ![tb] = DeleteRecord(@, pc[t].arg.u, s, i)]
            /\ PgResolved(t, <<>>, "return")
       ELSE /\ withRetryCatch(t, "pg")
            /\ UNCHANGED records
    /\ UNCHANGED <<users, admin_config, search_history, clock, redisVars, envVars>>
\* The SELECT of getAllFavorites, getAllPlayRecords and getAllSkipConfigs
PgSelectAll(t, op, tb) ==
    /\ pc[t].layer = "pg"
    /\ PgQuery(t, op, <<RecordMap(SelectRecordsOf(records[tb], pc[t].arg.u))>>, "return")

\* The SELECT of getFavorite and getPlayRecord: null (<<>>) when no row has
\* the key, else the data of the first row
PgSelectOne(t, op, tb, s, i) ==
    /\ pc[t].layer = "pg"
    /\ LET rows == SelectRecord(records[tb], pc[t].arg.u, s, i)
       IN  PgQuery(t, op, IF Len(rows) = 0 THEN <<>> ELSE <<JSONparse(rows[1].data)>>,
                   "return")
\* getFavorite(userName, key): const [source, itemId] = key.split('+')
PostgresStorage_getFavorite(t) ==
    PgSelectOne(t, "getFavorite", "favorites",
                SplitSource(pc[t].arg.key), SplitItemId(pc[t].arg.key))
\* getPlayRecord(userName, key)
PostgresStorage_getPlayRecord(t) ==
    PgSelectOne(t, "getPlayRecord", "play_records",
                SplitSource(pc[t].arg.key), SplitItemId(pc[t].arg.key))
\* setFavorite(userName, key, favorite): const [source, itemId] = key.split('+')
PostgresStorage_setFavorite(t) ==
    PgUpsert(t, "setFavorite", "favorites",
             SplitSource(pc[t].arg.key), SplitItemId(pc[t].arg.key))
PostgresStorage_deleteFavorite(t) ==
    PgDelete(t, "deleteFavorite", "favorites",
             SplitSource(pc[t].arg.key), SplitItemId(pc[t].arg.key))
PostgresStorage_getAllFavorites(t) == PgSelectAll(t, "getAllFavorites", "favorites")
\* setPlayRecord(userName, key, record)
PostgresStorage_setPlayRecord(t) ==
    PgUpsert(t, "setPlayRecord", "play_records",
             SplitSource(pc[t].arg.key), SplitItemId(pc[t].arg.key))
PostgresStorage_deletePlayRecord(t) ==
    PgDelete(t, "deletePlayRecord", "play_records",
             SplitSource(pc[t].arg.key), SplitItemId(pc[t].arg.key))
PostgresStorage_getAllPlayRecords(t) == PgSelectAll(t, "getAllPlayRecords", "play_records")
\* setSkipConfig(userName, source, id, config)
PostgresStorage_setSkipConfig(t) ==
    PgUpsert(t, "setSkipConfig", "skip_configs", pc[t].arg.source, pc[t].arg.id)
PostgresStorage_deleteSkipConfig(t) ==
    PgDelete(t, "deleteSkipConfig", "skip_configs", pc[t].arg.source, pc[t].arg.id)
PostgresStorage_getAllSkipConfigs(t) == PgSelectAll(t, "getAllSkipConfigs", "skip_configs")

\* getSearchHistory(userName): the keywords, newest first
SearchRow(u, k, now) == [username |-> u, keyword |-> k, created_at |-> now]
\* SELECT keyword ... WHERE username = $1 ORDER BY created_at DESC LIMIT 20.
\* Every INSERT is a statement of its own and takes the CURRENT_TIMESTAMP of its
\* execution, so the order of insertion is the order of created_at.
SelectKeywords(tbl, u) ==
    LET rows == SelectSeq(tbl, LAMBDA r : r.username = u)
        n == IF Len(rows) < HistoryLimit THEN Len(rows) ELSE HistoryLimit
    IN  [m \in 1..n |-> rows[Len(rows) + 1 - m].keyword]
\* Mutant: addSearchHistory without the trimming DELETE.
TrimHistory_None(tbl, u) == tbl
\* DELETE ... WHERE username = $1 AND id NOT IN (the newest 20 of the user)
TrimHistory(tbl, u) ==
    LET Newer(n) == Cardinality({m \in n+1..Len(tbl) : tbl[m].username = u})
        keep == {n \in 1..Len(tbl) : tbl[n].username # u \/ Newer(n) < HistoryLimit}
        Pick[n \in 0..Len(tbl)] ==
            IF n = 0 THEN <<>>
            ELSE IF n \in keep THEN Append(Pick[n-1], tbl[n]) ELSE Pick[n-1]
    IN  Pick[Len(tbl)]
PostgresStorage_getSearchHistory(t) ==
    /\ pc[t].layer = "pg"
    /\ PgQuery(t, "getSearchHistory", <<SelectKeywords(search_history, pc[t].arg.u)>>, "return")
\* addSearchHistory(userName, keyword): DELETE the keyword, INSERT it, DELETE all
\* but the newest 20, on one connection without a transaction
PostgresStorage_addSearchHistory(t) ==
    /\ pc[t].op = "addSearchHistory" /\ pc[t].layer = "pg"
    /\ LET a == pc[t].arg IN
       \/ /\ pc[t].step = "pg"
          /\ IF pgUp
             THEN /\ search_history' =
                        SelectSeq(search_history,
                                  LAMBDA r : ~(r.username = a.u /\ r.keyword = a.keyword))
                  /\ Goto(t, pc[t], "pg_insert")
             ELSE withRetryCatch(t, "pg") /\ UNCHANGED search_history
       \/ /\ pc[t].step = "pg_insert"
          /\ IF pgUp /\ ~ForeignKeyViolates(users, a.u)
             THEN /\ search_history' = Append(search_history, SearchRow(a.u, a.keyword, clock))
                  /\ Goto(t, pc[t], "pg_trim")
             ELSE withRetryCatch(t, "pg") /\ UNCHANGED search_history
       \/ /\ pc[t].step = "pg_trim"
          /\ IF pgUp
             THEN /\ search_history' = TrimHistory(search_history, a.u)
                  /\ PgResolved(t, <<>>, "return")
             ELSE withRetryCatch(t, "pg") /\ UNCHANGED search_history
    /\ UNCHANGED <<users, admin_config, records, clock, redisVars, envVars>>
\* deleteSearchHistory(userName, keyword?): if (keyword) the DELETE of the one
\* keyword, else (keyword undefined or '') the DELETE of every row of the user
PostgresStorage_deleteSearchHistory(t) ==
    /\ At(t, "deleteSearchHistory", "pg") /\ pc[t].layer = "pg"
    /\ LET a == pc[t].arg IN
       IF pgUp
       THEN /\ search_history' =
                  IF Truthy(a.keyword)
                  THEN SelectSeq(search_history,
                                 LAMBDA r : ~(r.username = a.u /\ r.keyword = a.keyword[1]))
                  ELSE SelectSeq(search_history, LAMBDA r : r.username # a.u)
            /\ PgResolved(t, <<>>, "return")
       ELSE /\ withRetryCatch(t, "pg")
            /\ UNCHANGED search_history
    /\ UNCHANGED <<users, admin_config, records, clock, redisVars, envVars>>

\* clearAllData(): BEGIN; the six DELETEs; the six ALTER SEQUENCE ... RESTART;
\* COMMIT; on an error ROLLBACK and rethrow, all of it the operation of withRetry.
\* Until COMMIT the deleted rows are gone for the transaction only (frame.loc is
\* what the transaction sees); callers come one at a time, so nothing else is
\* committed meanwhile.
EmptyDb ==
    [users |-> <<>>, admin_config |-> <<>>, records |-> [tb \in RecordTables |-> <<>>],
     search_history |-> <<>>]
Install(db) ==
    /\ users' = db.users
    /\ admin_config' = db.admin_config
    /\ records' = db.records
    /\ search_history' = db.search_history
\* Mutant: a ROLLBACK that leaves the work of the transaction in the tables.
ROLLBACK_None(db, tx) == tx
\* ROLLBACK (or the loss of the connection, which aborts the transaction): the
\* tables are as committed, the work of the transaction is dropped.
ROLLBACK(db, tx) == db
\* One step of the operation: the frame it leads to and the rows of the tables.
\* A statement that throws has not taken effect.
ClearStep(frame) ==
    LET failure(error) ==
            [frame |-> Caught([frame EXCEPT !.loc = <<>>], "pg", error),
             db |-> IF frame.loc = <<>> THEN Db ELSE ROLLBACK(Db, frame.loc[1])]
    IN  CASE frame.step = "pg" ->
               IF pgUp
               THEN [frame |-> [frame EXCEPT !.loc = <<EmptyDb>>, !.step = "pg_seq"], db |-> Db]
               ELSE failure("connection refused")
          [] frame.step = "pg_seq" ->
               IF pgUp
               THEN [frame |-> [frame EXCEPT !.step = "pg_commit"], db |-> Db]
               ELSE failure("connection terminated")
          [] frame.step = "pg_commit" ->
               IF pgUp
               THEN [frame |-> [frame EXCEPT
                                   !.pgOut = <<[ok |-> TRUE, val |-> <<>>, error |-> "none"]>>,
                                   !.loc = <<>>, !.step = "pg_ok"],
                     db |-> frame.loc[1]]
               ELSE failure("connection terminated")
ClearSteps == {"pg", "pg_seq", "pg_commit"}
PostgresStorage_clearAllData(t) ==
    /\ pc[t].op = "clearAllData" /\ pc[t].layer = "pg"
    /\ pc[t].step \in ClearSteps
    /\ LET r == ClearStep(pc[t]) IN
       /\ Install(r.db)
       /\ IF Rethrown(r.frame) THEN Finish(t, r.frame, FALSE, <<>>)
          ELSE IF r.frame.step = "pg_ok" THEN Finish(t, r.frame, TRUE, <<>>)
          ELSE /\ pc' = [pc EXCEPT ![t] = r.frame]
               /\ UNCHANGED <<hist, ghost, process>>
    /\ UNCHANGED <<clock, redisVars, envVars>>

\* ============================================================== HybridStorage
\* The steps of each method that follow (or precede) its PostgresStorage call.

\* registerUser: three awaited deleteFromCache calls
HybridStorage_registerUser(t) ==
    /\ pc[t].op = "registerUser" /\ pc[t].layer = "hybrid"
    /\ \/ /\ pc[t].step = "del_user"
          /\ deleteFromCache(t, {getCacheKey("user", pc[t].arg.u)}, "del_exists")
       \/ /\ pc[t].step = "del_exists"
          /\ deleteFromCache(t, {getCacheKey("user_exists", pc[t].arg.u)}, "del_all")
       \/ /\ pc[t].step = "del_all"
          /\ deleteFromCache(t, {getCacheKey("users", "all")}, "return")

\* verifyUser: if (isValid) setToCache(login key, { loginTime: Date.now() }, 86400)
HybridStorage_verifyUser(t) ==
    /\ At(t, "verifyUser", "set_login") /\ pc[t].layer = "hybrid"
    /\ setToCache(t, getCacheKey("login", pc[t].arg.u),
                  JSONstringifyObject([loginTime |-> clock]), TTL_LOGIN, "return", <<TRUE>>)

\* checkUserExist
HybridStorage_checkUserExist(t) ==
    /\ pc[t].op = "checkUserExist" /\ pc[t].layer = "hybrid"
    /\ \/ /\ pc[t].step = "get"
          /\ getFromCache(t, getCacheKey("user_exists", pc[t].arg.u), "pg")
       \/ /\ pc[t].step = "set"
          /\ setToCache(t, getCacheKey("user_exists", pc[t].arg.u),
                        JSONstringify(pc[t].loc[1]), TTL_EXISTS, "return", pc[t].loc)

\* changePassword
HybridStorage_changePassword(t) ==
    /\ At(t, "changePassword", "del_login") /\ pc[t].layer = "hybrid"
    /\ deleteFromCache(t, {getCacheKey("login", pc[t].arg.u)}, "return")

\* redis.deleteUser(userName) of BaseRedisStorage: removes every record the cache
\* store keeps for the user; a connection failure is surfaced to the caller.
BaseRedisStorage_deleteUser(t, u) ==
    IF redisUp
    THEN /\ kv' = [x \in DOMAIN kv |-> IF x[2] = u THEN <<>> ELSE kv[x]]
         /\ kvSearch' = [kvSearch EXCEPT ![u] = <<>>]
         /\ Finish(t, pc[t], TRUE, <<>>)
    ELSE /\ UNCHANGED <<kv, kvSearch>>
         /\ Finish(t, pc[t], FALSE, <<>>)

\* deleteUser: the four deleteFromCache calls of Promise.all are issued in one
\* turn on the one Redis connection, so no other command comes between them;
\* then await this.redis.deleteUser(userName)
DeleteUserCacheKeys(u) ==
    {getCacheKey("user", u), getCacheKey("user_exists", u), getCacheKey("login", u),
     getCacheKey("users", "all")}
HybridStorage_deleteUser(t) ==
    /\ pc[t].op = "deleteUser" /\ pc[t].layer = "hybrid"
    /\ \/ /\ pc[t].step = "del_caches"
          /\ deleteFromCache(t, DeleteUserCacheKeys(pc[t].arg.u), "redis_deleteUser")
       \/ /\ pc[t].step = "redis_deleteUser"
          /\ BaseRedisStorage_deleteUser(t, pc[t].arg.u)
          /\ UNCHANGED <<pgVars, redis, envVars>>

\* getAllUsers
HybridStorage_getAllUsers(t) ==
    /\ pc[t].op = "getAllUsers" /\ pc[t].layer = "hybrid"
    /\ \/ /\ pc[t].step = "get"
          /\ getFromCache(t, getCacheKey("users", "all"), "pg")
       \/ /\ pc[t].step = "set"
          /\ setToCache(t, getCacheKey("users", "all"), JSONstringify(pc[t].loc[1]),
                        TTL_USERS, "return", pc[t].loc)

\* getUserInfo
HybridStorage_getUserInfo(t) ==
    /\ pc[t].op = "getUserInfo" /\ pc[t].layer = "hybrid"
    /\ \/ /\ pc[t].step = "get"
          /\ getFromCache(t, getCacheKey("userinfo", pc[t].arg.u), "pg")
       \/ /\ pc[t].step = "set"
          /\ setToCache(t, getCacheKey("userinfo", pc[t].arg.u),
                        JSONstringifyObject(pc[t].loc[1]), TTL_USERINFO, "return", pc[t].loc)

\* setUserInfo: setToCache(cacheKey, userInfo, 3600)
HybridStorage_setUserInfo(t) ==
    /\ At(t, "setUserInfo", "set") /\ pc[t].layer = "hybrid"
    /\ setToCache(t, getCacheKey("userinfo", pc[t].arg.u),
                  JSONstringifyObject(pc[t].arg.info), TTL_USERINFO, "return", <<>>)

\* updateLastLogin
HybridStorage_updateLastLogin(t) ==
    /\ At(t, "updateLastLogin", "del_userinfo") /\ pc[t].layer = "hybrid"
    /\ deleteFromCache(t, {getCacheKey("userinfo", pc[t].arg.u)}, "return")

\* getAdminConfig
HybridStorage_getAdminConfig(t) ==
    /\ pc[t].op = "getAdminConfig" /\ pc[t].layer = "hybrid"
    /\ \/ /\ pc[t].step = "get"
          /\ getFromCache(t, getCacheKey("admin", "config"), "pg")
       \/ /\ pc[t].step = "set"
          /\ setToCache(t, getCacheKey("admin", "config"), JSONstringify(pc[t].loc[1]),
                        TTL_CONFIG, "return", pc[t].loc)

\* setAdminConfig: setToCache(cacheKey, config, 1800)
HybridStorage_setAdminConfig(t) ==
    /\ At(t, "setAdminConfig", "set") /\ pc[t].layer = "hybrid"
    /\ setToCache(t, getCacheKey("admin", "config"), JSONstringify(pc[t].arg.cfg),
                  TTL_CONFIG, "return", <<>>)

\* ------------------------------------- records HybridStorage keeps in Redis
\* BaseRedisStorage: one Redis value per (kind, user, `${source}+${id}`), a list
\* of keywords per user; a command fails while Redis is unreachable.
KvKey(kind, u, key) == <<kind, u, key>>
KvAll(store, kind, u) ==
    [k \in {key \in StorageKeys : store[KvKey(kind, u, key)] # <<>>} |->
        JSONparse(store[KvKey(kind, u, k)][1])]
BaseRedisStorage_set(t, op, kind, key) ==
    /\ At(t, op, "redis") /\ pc[t].layer = "hybrid"
    /\ IF redisUp
       THEN /\ kv' = [kv EXCEPT ![KvKey(kind, pc[t].arg.u, key)] = <<JSONstringify(pc[t].arg.data)>>]
            /\ Finish(t, pc[t], TRUE, <<>>)
       ELSE /\ UNCHANGED kv
            /\ Finish(t, pc[t], FALSE, <<>>)
    /\ UNCHANGED <<pgVars, redis, kvSearch, envVars>>
BaseRedisStorage_delete(t, op, kind, key) ==
    /\ At(t, op, "redis") /\ pc[t].layer = "hybrid"
    /\ IF redisUp
       THEN /\ kv' = [kv EXCEPT ![KvKey(kind, pc[t].arg.u, key)] = <<>>]
            /\ Finish(t, pc[t], TRUE, <<>>)
       ELSE /\ UNCHANGED kv
            /\ Finish(t, pc[t], FALSE, <<>>)
    /\ UNCHANGED <<pgVars, redis, kvSearch, envVars>>
\* get<Entity>(userName, key): the parsed value, or null
BaseRedisStorage_get(t, op, kind, key) ==
    /\ At(t, op, "redis") /\ pc[t].layer = "hybrid"
    /\ LET stored == kv[KvKey(kind, pc[t].arg.u, key)] IN
       IF redisUp
       THEN Finish(t, pc[t], TRUE,
                   IF stored = <<>> THEN <<NULL>> ELSE <<JSONparse(stored[1])>>)
       ELSE Finish(t, pc[t], FALSE, <<>>)
    /\ UNCHANGED <<pgVars, redisVars, envVars>>
BaseRedisStorage_getAll(t, op, kind) ==
    /\ At(t, op, "redis") /\ pc[t].layer = "hybrid"
    /\ IF redisUp
       THEN Finish(t, pc[t], TRUE, <<KvAll(kv, kind, pc[t].arg.u)>>)
       ELSE Finish(t, pc[t], FALSE, <<>>)
    /\ UNCHANGED <<pgVars, redisVars, envVars>>
BaseRedisStorage_getSearchHistory(t) ==
    /\ At(t, "getSearchHistory", "redis") /\ pc[t].layer = "hybrid"
    /\ IF redisUp
       THEN Finish(t, pc[t], TRUE, <<kvSearch[pc[t].arg.u]>>)
       ELSE Finish(t, pc[t], FALSE, <<>>)
    /\ UNCHANGED <<pgVars, redisVars, envVars>>
BaseRedisStorage_addSearchHistory(t) ==
    /\ At(t, "addSearchHistory", "redis") /\ pc[t].layer = "hybrid"
    /\ LET a == pc[t].arg
           rest == SelectSeq(kvSearch[a.u], LAMBDA k : k # a.keyword)
           all == <<a.keyword>> \o rest
       IN  IF redisUp
           THEN /\ kvSearch' = [kvSearch EXCEPT ![a.u] =
                                   IF Len(all) > HistoryLimit
                                   THEN SubSeq(all, 1, HistoryLimit) ELSE all]
                /\ Finish(t, pc[t], TRUE, <<>>)
           ELSE /\ UNCHANGED kvSearch
                /\ Finish(t, pc[t], FALSE, <<>>)
    /\ UNCHANGED <<pgVars, redis, kv, envVars>>
\* deleteSearchHistory(userName, keyword?): one keyword, or the whole list
BaseRedisStorage_deleteSearchHistory(t) ==
    /\ At(t, "deleteSearchHistory", "redis") /\ pc[t].layer = "hybrid"
    /\ LET a == pc[t].arg IN
       IF redisUp
       THEN /\ kvSearch' = [kvSearch EXCEPT ![a.u] =
                               IF a.keyword = <<>> THEN <<>>
                               ELSE SelectSeq(@, LAMBDA k : k # a.keyword[1])]
            /\ Finish(t, pc[t], TRUE, <<>>)
       ELSE /\ UNCHANGED kvSearch
            /\ Finish(t, pc[t], FALSE, <<>>)
    /\ UNCHANGED <<pgVars, redis, kv, envVars>>

\* Mutant: setFavorite of HybridStorage that writes the favorites table.
HybridStorage_setFavorite_Relational(t) ==
    /\ At(t, "setFavorite", "redis") /\ pc[t].layer = "hybrid"
    /\ LET a == pc[t].arg IN
       /\ records' = [records EXCEPT !["favorites"] =
                         Upsert(@, a.u, SplitSource(a.key), SplitItemId(a.key),
                                JSONstringify(a.data))]
       /\ Finish(t, pc[t], TRUE, <<>>)
    /\ UNCHANGED <<users, admin_config, search_history, clock, redisVars, envVars>>
\* The HybridStorage methods that return this.redis.<method>(...)
HybridStorage_setFavorite(t) == BaseRedisStorage_set(t, "setFavorite", "fav", pc[t].arg.key)
HybridStorage_getFavorite(t) == BaseRedisStorage_get(t, "getFavorite", "fav", pc[t].arg.key)
HybridStorage_getPlayRecord(t) ==
    BaseRedisStorage_get(t, "getPlayRecord", "pr", pc[t].arg.key)
HybridStorage_getSkipConfig(t) ==
    BaseRedisStorage_get(t, "getSkipConfig", "skip",
                         generateStorageKey(pc[t].arg.source, pc[t].arg.id))
HybridStorage_deleteSearchHistory(t) == BaseRedisStorage_deleteSearchHistory(t)
HybridStorage_deleteFavorite(t) ==
    BaseRedisStorage_delete(t, "deleteFavorite", "fav", pc[t].arg.key)
HybridStorage_getAllFavorites(t) == BaseRedisStorage_getAll(t, "getAllFavorites", "fav")
HybridStorage_setPlayRecord(t) == BaseRedisStorage_set(t, "setPlayRecord", "pr", pc[t].arg.key)
HybridStorage_deletePlayRecord(t) ==
    BaseRedisStorage_delete(t, "deletePlayRecord", "pr", pc[t].arg.key)
HybridStorage_getAllPlayRecords(t) == BaseRedisStorage_getAll(t, "getAllPlayRecords", "pr")
HybridStorage_setSkipConfig(t) ==
    BaseRedisStorage_set(t, "setSkipConfig", "skip",
                         generateStorageKey(pc[t].arg.source, pc[t].arg.id))
HybridStorage_deleteSkipConfig(t) ==
    BaseRedisStorage_delete(t, "deleteSkipConfig", "skip",
                            generateStorageKey(pc[t].arg.source, pc[t].arg.id))
HybridStorage_getAllSkipConfigs(t) == BaseRedisStorage_getAll(t, "getAllSkipConfigs", "skip")
HybridStorage_getSearchHistory(t) == BaseRedisStorage_getSearchHistory(t)
HybridStorage_addSearchHistory(t) == BaseRedisStorage_addSearchHistory(t)

\* clearUserCache(userName): Promise.all of four deleteFromCache calls
ClearUserCacheKeys(u) == {getCacheKey(p, u) : p \in UserPrefixes}
HybridStorage_clearUserCache(t) ==
    /\ At(t, "clearUserCache", "del_caches")
    /\ deleteFromCache(t, ClearUserCacheKeys(pc[t].arg.u), "return")

\* setCacheEnabled(enabled): synchronous
HybridStorage_setCacheEnabled(t, alone, enabled) ==
    /\ pc[t].op = "idle"
    /\ alone => (t = "t1" /\ AllIdle)
    /\ cacheEnabled' = enabled
    /\ hist' = Push(hist, Entry(t, NewCall("setCacheEnabled", "hybrid",
                                           [enabled |-> enabled], "-"), TRUE, <<>>))
    /\ UNCHANGED <<pgVars, redisVars, pgUp, redisUp, pc, ghost, process>>

\* redis.clearAllData() of BaseRedisStorage: removes every record the cache store
\* keeps; a connection failure is surfaced to the caller.
BaseRedisStorage_clearAllData ==
    IF redisUp
    THEN /\ kv' = [x \in DOMAIN kv |-> <<>>]
         /\ kvSearch' = NoHistory
    ELSE UNCHANGED <<kv, kvSearch>>
\* Mutant: a Promise.all that does not look at the outcome of the Redis wipe.
PromiseAll_IgnoreRedis(t, frame) ==
    LET anyFailed == Rethrown(frame)
        allDone == (Rethrown(frame) \/ frame.step = "pg_ok") /\ frame.redisOut # <<>>
    IN  /\ pc' = [pc EXCEPT ![t] =
                     IF allDone THEN Idle ELSE [frame EXCEPT !.settled = @ \/ anyFailed]]
        /\ hist' = IF ~frame.settled /\ (anyFailed \/ allDone)
                   THEN Push(hist, Entry(t, frame, ~anyFailed, <<>>))
                   ELSE hist
        /\ UNCHANGED process
\* await Promise.all([postgres.clearAllData(), redis.clearAllData()]): rejects as
\* soon as one of the two rejects, resolves when both have resolved.  A wipe that
\* is still running when the other one rejects runs on to its end.
PromiseAll(t, frame) ==
    LET anyFailed == Rethrown(frame) \/ frame.redisOut = <<FALSE>>
        allDone == (Rethrown(frame) \/ frame.step = "pg_ok") /\ frame.redisOut # <<>>
    IN  /\ pc' = [pc EXCEPT ![t] =
                     IF allDone THEN Idle ELSE [frame EXCEPT !.settled = @ \/ anyFailed]]
        /\ hist' = IF ~frame.settled /\ (anyFailed \/ allDone)
                   THEN Push(hist, Entry(t, frame, ~anyFailed, <<>>))
                   ELSE hist
        /\ UNCHANGED process
\* clearAllData: the two wipes are started together and go on independently
HybridStorage_clearAllData(t) ==
    /\ pc[t].op = "clearAllData" /\ pc[t].layer = "hybrid"
    /\ \/ /\ pc[t].step \in ClearSteps /\ ~Rethrown(pc[t])
          /\ LET r == ClearStep(pc[t]) IN
             /\ Install(r.db)
             /\ PromiseAll(t, r.frame)
             /\ registered' = IF r.frame.step = "pg_ok" THEN <<>> ELSE registered
          /\ UNCHANGED <<added, clock, redisVars, envVars>>
       \/ /\ pc[t].redisOut = <<>>
          /\ BaseRedisStorage_clearAllData
          /\ PromiseAll(t, [pc[t] EXCEPT !.redisOut = <<redisUp>>])
          /\ added' = IF redisUp THEN NoHistory ELSE added
          /\ UNCHANGED <<registered, pgVars, redis, envVars>>

\* ============================================================ storage factory
\* a || b
Or(a, b) == IF Truthy(a) THEN a ELSE b
StorageType == {"upstash", "postgres", "redis", "hybrid"}
\* Mutant: the connection variables present decide before STORAGE_TYPE does.
determineStorageType_ConnectionsFirst(e) ==
    IF Truthy(e["UPSTASH_URL"]) /\ Truthy(e["UPSTASH_TOKEN"]) THEN "upstash"
    ELSE IF Truthy(e["DATABASE_URL"]) /\ Truthy(e["REDIS_URL"]) THEN "hybrid"
    ELSE IF Truthy(e["DATABASE_URL"]) THEN "postgres"
    ELSE IF Truthy(e["REDIS_URL"]) THEN "redis"
    ELSE IF Truthy(e["STORAGE_TYPE"]) /\ e["STORAGE_TYPE"][1] \in StorageType
    THEN e["STORAGE_TYPE"][1]
    ELSE "upstash"
\* determineStorageType(): STORAGE_TYPE when it is one of the four, else the
\* first backend whose connection variables are there, upstash by default
determineStorageType(e) ==
    IF Truthy(e["STORAGE_TYPE"]) /\ e["STORAGE_TYPE"][1] \in StorageType
    THEN e["STORAGE_TYPE"][1]
    ELSE IF Truthy(e["UPSTASH_URL"]) /\ Truthy(e["UPSTASH_TOKEN"]) THEN "upstash"
    ELSE IF Truthy(e["DATABASE_URL"]) /\ Truthy(e["REDIS_URL"]) THEN "hybrid"
    ELSE IF Truthy(e["DATABASE_URL"]) THEN "postgres"
    ELSE IF Truthy(e["REDIS_URL"]) THEN "redis"
    ELSE "upstash"
\* getStorageConfigs(): DATABASE_URL || POSTGRES_URL || '' and
\* REDIS_URL || 'redis://localhost:6379'
getStorageConfigs(e) ==
    [connectionString |-> Or(Or(e["DATABASE_URL"], e["POSTGRES_URL"]), <<"">>)[1],
     url |-> Or(e["REDIS_URL"], <<"redis://localhost:6379">>)[1]]
\* The check each case of createStorage makes before it constructs the storage.
ConfigMissing(type, e) ==
    LET config == getStorageConfigs(e) IN
    CASE type = "upstash" -> ~Truthy(e["UPSTASH_URL"]) \/ ~Truthy(e["UPSTASH_TOKEN"])
      [] type = "postgres" -> config.connectionString = ""
      [] type = "redis" -> config.url = ""
      [] type = "hybrid" -> config.connectionString = "" \/ config.url = ""
\* new PostgresStorage(...) and the like: the pool has no client checked out
NewInstance(type) == [type |-> type, isConnected |-> FALSE, checkedOut |-> 0]
\* createStorage() up to its first await: throws on a missing parameter, else
\* constructs the storage, and PostgresStorage and HybridStorage go on to connect
createStorage ==
    LET type == determineStorageType(env) IN
    IF ConfigMissing(type, env)
    THEN [out |-> "throw", inst |-> 0, instances |-> instances, created |-> FALSE,
          type |-> type]
    ELSE [out |-> IF type \in {"postgres", "hybrid"} THEN "connect" ELSE "assign",
          inst |-> Len(instances) + 1,
          instances |-> Append(instances, NewInstance(type)), created |-> TRUE,
          type |-> type]
\* getStorage() of storage-config.ts up to its first await:
\* if (!storageInstance) storageInstance = await createStorage()
getStorage ==
    IF storageInstance # <<>>
    THEN [out |-> "return", inst |-> storageInstance[1], instances |-> instances,
          created |-> FALSE, type |-> instances[storageInstance[1]].type]
    ELSE createStorage
\* A call of a task settles; the variables of the factory are left to the action.
Settle(p, frame, ok, val) ==
    /\ pc' = [pc EXCEPT ![p] = Idle]
    /\ hist' = Push(hist, Entry(p, frame, ok, val))
    /\ UNCHANGED ghost
\* The promise of the process p rejects: the caller of getStorage() or
\* createStorage() gets the error; initialize() rethrows it, which leaves
\* DbManager.initPromise rejected.
Reject(p) ==
    IF pc[p].op = "initialize"
    THEN /\ pc' = [pc EXCEPT ![p] = Idle]
         /\ dbManager' = [dbManager EXCEPT !.initPromise = "rejected"]
         /\ UNCHANGED <<hist, ghost>>
    ELSE /\ Settle(p, pc[p], FALSE, <<>>)
         /\ UNCHANGED dbManager
Pool(inst, n, connected) ==
    [instances EXCEPT ![inst] = [@ EXCEPT !.checkedOut = @ + n, !.isConnected = connected]]
\* The first synchronous part of getStorage() / createStorage() called by a task.
StorageFactory_resolve(t) ==
    /\ pc[t].op \in {"getStorage", "createStorage"} /\ pc[t].step = "check"
    /\ LET r == IF pc[t].op = "getStorage" THEN getStorage ELSE createStorage
           frame == [pc[t] EXCEPT !.loc = <<r.inst>>, !.step = r.out,
                                  !.arg = [created |-> r.created, type |-> r.type]]
       IN  /\ instances' = r.instances
           /\ CASE r.out = "throw" -> Settle(t, frame, FALSE, <<>>)
                [] r.out = "return" -> Settle(t, frame, TRUE, <<r.inst>>)
                [] OTHER -> /\ pc' = [pc EXCEPT ![t] = frame]
                            /\ UNCHANGED <<hist, ghost>>
    /\ UNCHANGED <<pgVars, redisVars, envVars, backend, env, storageInstance,
                   dbStorageInstance, dbManager, returned>>
\* PostgresStorage.connect(), awaited by createStorage (through
\* HybridStorage.connect() in hybrid mode): pool.connect(), then the statements
\* of initializeTables, then client.release() and isConnected = true.  An error
\* is logged and rethrown.
PostgresStorage_connect(p) ==
    /\ pc[p].op \in {"getStorage", "createStorage", "initialize"}
    /\ LET inst == pc[p].loc[1] IN
       \/ /\ pc[p].step = "connect"
          /\ IF pgUp
             THEN /\ instances' = Pool(inst, 1, FALSE)
                  /\ pc' = [pc EXCEPT ![p] = [@ EXCEPT !.step = "tables"]]
                  /\ UNCHANGED <<hist, ghost, dbManager>>
             ELSE /\ Reject(p)
                  /\ UNCHANGED instances
       \/ /\ pc[p].step = "tables"
          /\ IF pgUp
             THEN /\ instances' = Pool(inst, -1, TRUE)
                  /\ pc' = [pc EXCEPT ![p] = [@ EXCEPT !.step = "assign"]]
                  /\ UNCHANGED <<hist, ghost, dbManager>>
             ELSE /\ Reject(p)
                  /\ UNCHANGED instances
    /\ UNCHANGED <<pgVars, redisVars, envVars, backend, env, storageInstance,
                   dbStorageInstance, returned>>
\* createStorage() has resolved: storageInstance = <the storage>; return it.
StorageFactory_assign(p) ==
    /\ pc[p].op \in {"getStorage", "createStorage", "initialize"} /\ pc[p].step = "assign"
    /\ LET inst == pc[p].loc[1]
           viaGetStorage == pc[p].op # "createStorage"
       IN  /\ storageInstance' =
                 IF viaGetStorage /\ pc[p].arg.created THEN <<inst>> ELSE storageInstance
           /\ returned' = IF viaGetStorage /\ returned = <<>> THEN <<inst>> ELSE returned
           /\ IF pc[p].op = "initialize"
              THEN /\ dbStorageInstance' = <<inst>>
                   /\ dbManager' = [storage |-> <<inst>>, initPromise |-> "fulfilled"]
                   /\ pc' = [pc EXCEPT ![p] = Idle]
                   /\ UNCHANGED <<hist, ghost>>
              ELSE /\ Settle(p, pc[p], TRUE, <<inst>>)
                   /\ UNCHANGED <<dbStorageInstance, dbManager>>
    /\ UNCHANGED <<pgVars, redisVars, envVars, backend, env, instances>>
\* db.<method>(...): await this.ensureInitialized(), then the method of
\* this.storage.  The first caller starts initialize(), which runs getStorage()
\* of db.ts and through it getStorage() of storage-config.ts up to the first
\* await; every caller awaits initPromise.
\* ensureInitialized() has returned: the method goes on with this.storage.
Ensured(t) ==
    IF pc[t].op = "db"
    THEN Settle(t, pc[t], TRUE, dbManager.storage)
    ELSE /\ pc' = [pc EXCEPT ![t] = [@ EXCEPT !.step = "typeof"]]
         /\ UNCHANGED <<hist, ghost>>
DbManager_ensureInitialized(t) ==
    /\ pc[t].op \in {"db", "db.clearAllData"}
    /\ pc[t].step \in {"check", "await"}
    /\ \/ /\ pc[t].step = "check"
          /\ IF dbManager.storage # <<>>
             THEN /\ Ensured(t)
                  /\ UNCHANGED <<dbManager, instances>>
             ELSE IF dbManager.initPromise # "null"
             THEN /\ pc' = [pc EXCEPT ![t] = [@ EXCEPT !.step = "await"]]
                  /\ UNCHANGED <<hist, ghost, dbManager, instances>>
             ELSE LET r == IF dbStorageInstance # <<>>
                           THEN [out |-> "assign", inst |-> dbStorageInstance[1],
                                 instances |-> instances, created |-> FALSE,
                                 type |-> instances[dbStorageInstance[1]].type]
                           ELSE getStorage
                      init == [NewCall("initialize", backend,
                                       [created |-> r.created, type |-> r.type],
                                       IF r.out = "return" THEN "assign" ELSE r.out)
                                 EXCEPT !.loc = <<r.inst>>]
                  IN  /\ instances' = r.instances
                      /\ dbManager' = [dbManager EXCEPT !.initPromise =
                                          IF r.out = "throw" THEN "rejected" ELSE "pending"]
                      /\ pc' = [pc EXCEPT ![t] = [@ EXCEPT !.step = "await"],
                                          !["init"] = IF r.out = "throw" THEN Idle ELSE init]
                      /\ UNCHANGED <<hist, ghost>>
       \/ /\ pc[t].step = "await"
          /\ dbManager.initPromise \in {"fulfilled", "rejected"}
          /\ IF dbManager.initPromise = "fulfilled"
             THEN Ensured(t)
             ELSE Settle(t, pc[t], FALSE, <<>>)
          /\ UNCHANGED <<dbManager, instances>>
    /\ UNCHANGED <<pgVars, redisVars, envVars, backend, env, storageInstance,
                   dbStorageInstance, returned>>
\* typeof storage.clearAllData === 'function': PostgresStorage and
\* HybridStorage define the method; the Upstash storage is taken not to.
Implements_All(type) == TRUE
Implements(type) == type \in {"postgres", "hybrid"}
\* db.clearAllData(): await this.ensureInitialized(); then the storage's
\* clearAllData() if it is a function, else throw new Error(...)
DbManager_clearAllData(t) ==
    /\ At(t, "db.clearAllData", "typeof")
    /\ IF Implements(instances[dbManager.storage[1]].type)
       THEN /\ pc' = [pc EXCEPT ![t] = [NewCall("clearAllData", backend, pc[t].arg, "pg")
                                           EXCEPT !.before = pc[t].before]]
            /\ UNCHANGED <<hist, ghost>>
       ELSE Settle(t, [pc[t] EXCEPT !.failed = <<FailedAttempt("unsupported", <<>>)>>],
                   FALSE, <<>>)
    /\ UNCHANGED <<pgVars, redisVars, envVars, process>>
\* closeStorage(): if (storageInstance) { await storageInstance.disconnect();
\* storageInstance = null }.  disconnect() ends the pool of a connected storage.
StorageFactory_closeStorage(t) ==
    /\ pc[t].op = "closeStorage"
    /\ \/ /\ pc[t].step = "check"
          /\ returned' = <<>>
          /\ IF storageInstance = <<>>
             THEN Settle(t, pc[t], TRUE, <<>>)
             ELSE /\ pc' = [pc EXCEPT ![t] = [@ EXCEPT !.step = "end", !.loc = storageInstance]]
                  /\ UNCHANGED <<hist, ghost>>
          /\ UNCHANGED <<storageInstance, instances>>
       \/ /\ pc[t].step = "end"
          /\ instances' = Pool(pc[t].loc[1], 0, FALSE)
          /\ storageInstance' = <<>>
          /\ Settle(t, pc[t], TRUE, <<>>)
          /\ returned' = <<>>
    /\ UNCHANGED <<pgVars, redisVars, envVars, backend, env, dbStorageInstance, dbManager>>

\* ================================================================ environment
\* The database clock advances.
Tick ==
    /\ clock < MaxClock
    /\ clock' = clock + 1
    /\ UNCHANGED <<users, admin_config, records, search_history, redisVars, envVars, pc, hist, ghost, process>>
\* The Redis server becomes unreachable (every command throws) or reachable again.
RedisOutage ==
    /\ redisUp' = ~redisUp
    /\ UNCHANGED <<pgVars, redisVars, cacheEnabled, pgUp, pc, hist, ghost, process>>
\* The PostgreSQL server becomes unreachable (pool.connect() throws) or reachable.
PostgresOutage ==
    /\ pgUp' = ~pgUp
    /\ UNCHANGED <<pgVars, redisVars, cacheEnabled, redisUp, pc, hist, ghost, process>>
EnvEvent(op, arg) == Entry("env", NewCall(op, "env", arg, "-"), TRUE, <<>>)
\* A key written with setEx expires.
Expire(key) ==
    /\ redis[key] # <<>>
    /\ redis' = [redis EXCEPT ![key] = <<>>]
    /\ hist' = Push(hist, EnvEvent("expire", [key |-> key]))
    /\ UNCHANGED <<pgVars, kv, kvSearch, envVars, pc, ghost, process>>
\* A user's row is changed in the database directly, not through the store.
DirectUpdate(u, e) ==
    /\ HasUser(users, u)
    /\ ~UpdateEmailViolates(users, u, e)
    /\ users' = UpdateEmail(users, u, e)
    /\ users' # users
    /\ hist' = Push(hist, EnvEvent("direct", [u |-> u, email |-> e]))
    /\ UNCHANGED <<admin_config, records, search_history, clock, redisVars, envVars, pc,
                   ghost, process>>

\* ====================================================================== calls
CallRegisterUser(t, alone, N, P, E) ==
    \E u \in N, pw \in P, e \in E, salt \in Salts :
        Call(t, alone, "registerUser",
             [u |-> u, pw |-> pw, email |-> e, salt |-> salt], "pg")
CallVerifyUser(t, alone, N, P) ==
    \E u \in N, pw \in P :
        Call(t, alone, "verifyUser", [u |-> u, pw |-> pw], "pg")
CallChangePassword(t, alone, N, P) ==
    \E u \in N, pw \in P, salt \in Salts :
        Call(t, alone, "changePassword", [u |-> u, pw |-> pw, salt |-> salt], "pg")
CallCheckEmailExist(t, alone, E) ==
    \E e \in E : Call(t, alone, "checkEmailExist", [email |-> e], "pg")
CallSetUserInfo(t, alone, N, I) ==
    \E u \in N, info \in I :
        Call(t, alone, "setUserInfo", [u |-> u, info |-> info], "pg")
CallSetAdminConfig(t, alone, C) ==
    \E cfg \in C : Call(t, alone, "setAdminConfig", [cfg |-> cfg], "pg")
\* A write that names a user only.
CallUserWrite(t, alone, op, N) ==
    \E u \in N : Call(t, alone, op, [u |-> u], "pg")
\* A read: HybridStorage consults the cache first.
ReadStart == IF backend = "hybrid" THEN "get" ELSE "pg"
CallUserRead(t, alone, op, N) ==
    \E u \in N : Call(t, alone, op, [u |-> u], ReadStart)
CallRead(t, alone, op) == Call(t, alone, op, <<>>, ReadStart)
\* A call on the per-user records: HybridStorage hands it to Redis.
RecordStart == IF backend = "hybrid" THEN "redis" ELSE "pg"
CallSetRecord(t, alone, op, N, K, D) ==
    \E u \in N, key \in K, data \in D :
        Call(t, alone, op, [u |-> u, key |-> key, data |-> data], RecordStart)
CallSetSkipConfig(t, alone, N, S, I, D) ==
    \E u \in N, source \in S, id \in I, data \in D :
        Call(t, alone, "setSkipConfig",
             [u |-> u, source |-> source, id |-> id, data |-> data], RecordStart)
CallDeleteRecord(t, alone, op, N, K) ==
    \E u \in N, key \in K : Call(t, alone, op, [u |-> u, key |-> key], RecordStart)
CallDeleteSkipConfig(t, alone, N, S, I) ==
    \E u \in N, source \in S, id \in I :
        Call(t, alone, "deleteSkipConfig", [u |-> u, source |-> source, id |-> id],
             RecordStart)
CallRecordRead(t, alone, op, N) ==
    \E u \in N : Call(t, alone, op, [u |-> u], RecordStart)
CallAddSearchHistory(t, alone, N, K) ==
    \E u \in N, keyword \in K :
        Call(t, alone, "addSearchHistory", [u |-> u, keyword |-> keyword], RecordStart)
CallDeleteSearchHistory(t, alone, N, K) ==
    \E u \in N, keyword \in K :
        Call(t, alone, "deleteSearchHistory", [u |-> u, keyword |-> keyword], RecordStart)
CallDbClearAllData(t, alone) ==
    /\ Len(instances) < MaxInstances \/ dbManager.initPromise # "null"
    /\ Call(t, alone, "db.clearAllData", [via |-> "db"], "check")
CallClearAllData(t, alone) == Call(t, alone, "clearAllData", <<>>, "pg")
\* A call that resolves or closes the storage; once MaxInstances storage objects
\* have been constructed, only a call that cannot construct another is made.
CallFactory(t, alone, op) ==
    /\ \/ Len(instances) < MaxInstances
       \/ op = "closeStorage"
       \/ op = "getStorage" /\ storageInstance # <<>>
                            /\ \A q \in Tasks : pc[q].op # "closeStorage"
       \/ op = "db" /\ dbManager.initPromise # "null"
    /\ Call(t, alone, op, <<>>, "check")
CallClearUserCache(t, alone, N) ==
    \E u \in N : Call(t, alone, "clearUserCache", [u |-> u], "del_caches")

\* ====================================================================== Init
NoCall == Entry("-", Idle, TRUE, <<>>)
\* No storage has been resolved: the module variables are null, the DbManager is
\* new.
Unresolved ==
    /\ storageInstance = <<>>
    /\ dbStorageInstance = <<>>
    /\ dbManager = [storage |-> <<>>, initPromise |-> "null"]
    /\ instances = <<>>
    /\ returned = <<>>
\* The database and the cache are empty and no call has been made.
Boot ==
    /\ users = <<>>
    /\ admin_config = <<>>
    /\ records = [tb \in RecordTables |-> <<>>]
    /\ search_history = <<>>
    /\ clock = 1
    /\ redis = [k \in CacheKeys |-> <<>>]
    /\ kv = [x \in KvKinds \X Names \X StorageKeys |-> <<>>]
    /\ kvSearch = [u \in Names |-> <<>>]
    /\ cacheEnabled = TRUE
    /\ pgUp = TRUE
    /\ redisUp = TRUE
    /\ pc = [t \in Procs |-> Idle]
    /\ Unresolved
    /\ hist = <<Summary(NoCall), NoCall>>
    /\ registered = <<>>
    /\ added = [u \in Names |-> <<>>]
Fresh == env = Deployment /\ Boot

\* ------------------------------------------------------------ specifications
\* Profile data through HybridStorage, one call at a time, with the cache
\* disabled or unreachable at times, entries expiring, and rows changed behind
\* the store's back.
ProfileInfos == [email : Emails, createdAt : {1}, lastLoginAt : {undefined, MaxClock}]
InitProfile == Fresh /\ backend = "hybrid"
NextProfile ==
    \E t \in Tasks :
        \/ CallRegisterUser(t, TRUE, {"alice"}, {<<"pw1">>}, {"a@x.com"})
        \/ CallSetUserInfo(t, TRUE, {"alice"}, ProfileInfos)
        \/ CallUserRead(t, TRUE, "getUserInfo", {"alice"})
        \/ CallUserWrite(t, TRUE, "updateLastLogin", {"alice"})
        \/ \E b \in BOOLEAN : HybridStorage_setCacheEnabled(t, TRUE, b)
        \/ PostgresStorage_registerUser(t)
        \/ PostgresStorage_setUserInfo(t)
        \/ PostgresStorage_getUserInfo(t)
        \/ PostgresStorage_updateLastLogin(t)
        \/ HybridStorage_registerUser(t)
        \/ HybridStorage_setUserInfo(t)
        \/ HybridStorage_getUserInfo(t)
        \/ HybridStorage_updateLastLogin(t)
        \/ RedisOutage
        \/ \E k \in CacheKeys : Expire(k)
        \/ \E e \in Emails : DirectUpdate("alice", e)
SpecProfile == InitProfile /\ [][NextProfile]_vars

\* The cached reads of HybridStorage, one call at a time, while Redis comes
\* and goes.
InitReads == Fresh /\ backend = "hybrid"
NextReads ==
    \E t \in Tasks :
        \/ CallRegisterUser(t, TRUE, {"alice"}, {<<"pw1">>}, {"a@x.com"})
        \/ CallSetAdminConfig(t, TRUE, {"cfg1"})
        \/ CallUserRead(t, TRUE, "checkUserExist", {"alice"})
        \/ CallUserRead(t, TRUE, "getUserInfo", {"alice"})
        \/ CallRead(t, TRUE, "getAllUsers")
        \/ CallRead(t, TRUE, "getAdminConfig")
        \/ PostgresStorage_registerUser(t)
        \/ PostgresStorage_setAdminConfig(t)
        \/ PostgresStorage_checkUserExist(t)
        \/ PostgresStorage_getUserInfo(t)
        \/ PostgresStorage_getAllUsers(t)
        \/ PostgresStorage_getAdminConfig(t)
        \/ HybridStorage_registerUser(t)
        \/ HybridStorage_setAdminConfig(t)
        \/ HybridStorage_checkUserExist(t)
        \/ HybridStorage_getUserInfo(t)
        \/ HybridStorage_getAllUsers(t)
        \/ HybridStorage_getAdminConfig(t)
        \/ RedisOutage
SpecReads == InitReads /\ [][NextReads]_vars

\* Accounts that hold records, one call at a time, on either backend: alice and
\* bob are registered and each has a favorite, a play record, a skip config and
\* a search keyword; users are deleted and read back while the cache is
\* switched off and on and Redis comes and goes.
AccountEmail == [u \in Names |-> IF u = "alice" THEN "a@x.com" ELSE "b@x.com"]
AccountNames == <<"alice", "bob">>
AccountKey == generateStorageKey(<<"src">>, <<"i1">>)
\* alice and bob with their records; stored[n] is the password_hash of the n-th.
AccountRow(n, stored, active) ==
    [UserRow(AccountNames[n], stored, AccountEmail[AccountNames[n]], 1)
        EXCEPT !.is_active = active]
\* alice and bob, the rows of the users table given.
AccountData(rows) ==
    /\ users = rows
    /\ registered = [n \in 1..2 |->
                        Registration([u |-> AccountNames[n], pw |-> <<"pw1">>,
                                      email |-> AccountEmail[AccountNames[n]]])]
    /\ added = [u \in Names |-> <<"k1">>]
    /\ admin_config = <<>>
    /\ clock = 1
    /\ records = [tb \in RecordTables |->
                     IF backend = "pg"
                     THEN [n \in 1..2 |-> RecordRow(AccountNames[n], SplitSource(AccountKey),
                                                    SplitItemId(AccountKey), JSONstringify("p1"))]
                     ELSE <<>>]
    /\ search_history = IF backend = "pg"
                        THEN [n \in 1..2 |-> SearchRow(AccountNames[n], "k1", 1)]
                        ELSE <<>>
    /\ kv = [x \in KvKinds \X Names \X StorageKeys |->
                IF backend # "pg" /\ x[3] = AccountKey THEN <<JSONstringify("p1")>> ELSE <<>>]
    /\ kvSearch = [u \in Names |-> IF backend # "pg" THEN <<"k1">> ELSE <<>>]
    /\ redis = [k \in CacheKeys |-> <<>>]
    /\ cacheEnabled = TRUE
    /\ pgUp = TRUE
    /\ redisUp = TRUE
    /\ pc = [t \in Procs |-> Idle]
    /\ Unresolved
    /\ hist = <<Summary(NoCall), NoCall>>
AccountRows(rows) ==
    /\ env = Deployment
    /\ backend \in {"pg", "hybrid"}
    /\ AccountData(rows)
Accounts(stored) == AccountRows([n \in 1..2 |-> AccountRow(n, stored[n], TRUE)])
InitAccounts == Accounts([n \in 1..2 |-> hashPassword(<<"pw1">>, "s1")])
NextAccounts ==
    \E t \in Tasks :
        \/ CallUserWrite(t, TRUE, "deleteUser", {"alice"})
        \/ CallRead(t, TRUE, "getAllUsers")
        \/ CallUserRead(t, TRUE, "getUserInfo", {"alice"})
        \/ CallRecordRead(t, TRUE, "getAllFavorites", {"alice"})
        \/ CallRecordRead(t, TRUE, "getAllPlayRecords", {"alice"})
        \/ CallRecordRead(t, TRUE, "getAllSkipConfigs", {"alice"})
        \/ CallRecordRead(t, TRUE, "getSearchHistory", {"alice"})
        \/ backend = "hybrid" /\ \E b \in BOOLEAN : HybridStorage_setCacheEnabled(t, TRUE, b)
        \/ PostgresStorage_deleteUser(t)
        \/ PostgresStorage_getAllUsers(t)
        \/ PostgresStorage_getUserInfo(t)
        \/ PostgresStorage_getAllFavorites(t)
        \/ PostgresStorage_getAllPlayRecords(t)
        \/ PostgresStorage_getAllSkipConfigs(t)
        \/ PostgresStorage_getSearchHistory(t)
        \/ HybridStorage_deleteUser(t)
        \/ HybridStorage_getAllUsers(t)
        \/ HybridStorage_getUserInfo(t)
        \/ HybridStorage_getAllFavorites(t)
        \/ HybridStorage_getAllPlayRecords(t)
        \/ HybridStorage_getAllSkipConfigs(t)
        \/ HybridStorage_getSearchHistory(t)
        \/ backend = "hybrid" /\ RedisOutage
SpecAccounts == InitAccounts /\ [][NextAccounts]_vars

\* Registration of alice while other calls ask about her, the calls of the two
\* tasks interleaving step by step, on either backend.
InitRegister == Fresh /\ backend \in {"pg", "hybrid"}
NextRegister ==
    \E t \in Tasks :
        \/ CallRegisterUser(t, FALSE, {"alice"}, {<<"pw1">>}, {"a@x.com"})
        \/ CallUserRead(t, FALSE, "checkUserExist", {"alice"})
        \/ CallCheckEmailExist(t, FALSE, {"a@x.com"})
        \/ CallVerifyUser(t, FALSE, {"alice"}, Passwords)
        \/ PostgresStorage_registerUser(t)
        \/ PostgresStorage_checkUserExist(t)
        \/ PostgresStorage_checkEmailExist(t)
        \/ PostgresStorage_verifyUser(t)
        \/ HybridStorage_registerUser(t)
        \/ HybridStorage_checkUserExist(t)
        \/ HybridStorage_verifyUser(t)
SpecRegister == InitRegister /\ [][NextRegister]_vars

\* Concurrent registrations that share user names and emails, on either backend.
InitSignup == Fresh /\ backend \in {"pg", "hybrid"}
NextSignup ==
    \E t \in Tasks :
        \/ CallRegisterUser(t, FALSE, Names, {<<"pw1">>}, Emails)
        \/ PostgresStorage_registerUser(t)
        \/ HybridStorage_registerUser(t)
SpecSignup == InitSignup /\ [][NextSignup]_vars

\* The keyed records of alice on PostgresStorage, written and deleted by two
\* tasks whose calls interleave.
InitRecords ==
    /\ env = Deployment
    /\ backend = "pg"
    /\ users = <<UserRow("alice", hashPassword(<<"pw1">>, "s1"), "a@x.com", 1)>>
    /\ registered = <<Registration([u |-> "alice", pw |-> <<"pw1">>, email |-> "a@x.com"])>>
    /\ added = [u \in Names |-> <<>>]
    /\ admin_config = <<>>
    /\ records = [tb \in RecordTables |-> <<>>]
    /\ search_history = <<>>
    /\ clock = 1
    /\ redis = [k \in CacheKeys |-> <<>>]
    /\ kv = [x \in KvKinds \X Names \X StorageKeys |-> <<>>]
    /\ kvSearch = [u \in Names |-> <<>>]
    /\ cacheEnabled = TRUE
    /\ pgUp = TRUE
    /\ redisUp = TRUE
    /\ pc = [t \in Procs |-> Idle]
    /\ Unresolved
    /\ hist = <<Summary(NoCall), NoCall>>
NextRecords ==
    \E t \in Tasks :
        \/ CallSetRecord(t, FALSE, "setFavorite", {"alice"}, StorageKeys, Payloads)
        \/ CallSetRecord(t, FALSE, "setPlayRecord", {"alice"}, {AccountKey}, {"p2"})
        \/ CallSetSkipConfig(t, FALSE, {"alice"}, Sources, {<<"i1">>}, {"p1"})
        \/ CallDeleteRecord(t, FALSE, "deleteFavorite", {"alice"}, {AccountKey})
        \/ PostgresStorage_setFavorite(t)
        \/ PostgresStorage_setPlayRecord(t)
        \/ PostgresStorage_setSkipConfig(t)
        \/ PostgresStorage_deleteFavorite(t)
SpecRecords == InitRecords /\ [][NextRecords]_vars

\* The search history of alice, one call at a time, on either storage.  Keywords
\* are numbered in the order of their first use: she searches for the next
\* keyword she has not used yet or again for one of her first two, and reads the
\* history.
InitHistory ==
    /\ env = Deployment
    /\ backend \in {"pg", "hybrid"}
    /\ users = <<UserRow("alice", hashPassword(<<"pw1">>, "s1"), "a@x.com", 1)>>
    /\ registered = <<Registration([u |-> "alice", pw |-> <<"pw1">>, email |-> "a@x.com"])>>
    /\ added = [u \in Names |-> <<>>]
    /\ admin_config = <<>>
    /\ records = [tb \in RecordTables |-> <<>>]
    /\ search_history = <<>>
    /\ clock = 1
    /\ redis = [k \in CacheKeys |-> <<>>]
    /\ kv = [x \in KvKinds \X Names \X StorageKeys |-> <<>>]
    /\ kvSearch = [u \in Names |-> <<>>]
    /\ cacheEnabled = TRUE
    /\ pgUp = TRUE
    /\ redisUp = TRUE
    /\ pc = [t \in Procs |-> Idle]
    /\ Unresolved
    /\ hist = <<Summary(NoCall), NoCall>>
NextKeywords == {k \in 1..MaxKeywords : k \in {1, 2} \/ k = Len(added["alice"]) + 1}
NextHistory ==
    \E t \in Tasks :
        \/ CallAddSearchHistory(t, TRUE, {"alice"}, NextKeywords)
        \/ CallRecordRead(t, TRUE, "getSearchHistory", {"alice"})
        \/ PostgresStorage_addSearchHistory(t)
        \/ PostgresStorage_getSearchHistory(t)
        \/ HybridStorage_addSearchHistory(t)
        \/ HybridStorage_getSearchHistory(t)
SpecHistory == InitHistory /\ [][NextHistory]_vars

\* The search history of alice on PostgresStorage, added to by two tasks whose
\* DELETE, INSERT and trimming DELETE statements interleave.
RaceKeywords == {1, 2}
InitHistoryRace == InitHistory /\ backend = "pg"
NextHistoryRace ==
    \E t \in Tasks :
        \/ CallAddSearchHistory(t, FALSE, {"alice"}, RaceKeywords)
        \/ CallRecordRead(t, FALSE, "getSearchHistory", {"alice"})
        \/ PostgresStorage_addSearchHistory(t)
        \/ PostgresStorage_getSearchHistory(t)
SpecHistoryRace == InitHistoryRace /\ [][NextHistoryRace]_vars

\* Calls on PostgresStorage, one at a time, while the database goes down and
\* comes back and an acknowledgement may get lost.  The event loop runs every
\* continuation and timer that is due: a call in flight takes its next step.
InitRetry == Fresh /\ backend = "pg"
RetrySteps ==
    \E t \in Tasks :
        \/ PostgresStorage_registerUser(t)
        \/ PostgresStorage_checkUserExist(t)
        \/ PostgresStorage_getAllUsers(t)
NextRetry ==
    \/ \E t \in Tasks :
          \/ CallRegisterUser(t, TRUE, {"alice"}, {<<"pw1">>}, {"a@x.com"})
          \/ CallUserRead(t, TRUE, "checkUserExist", {"alice"})
          \/ CallRead(t, TRUE, "getAllUsers")
          \/ PostgresStorage_registerUser_AckLost(t)
    \/ RetrySteps
    \/ PostgresOutage
SpecRetry == InitRetry /\ [][NextRetry]_vars /\ WF_vars(RetrySteps)

\* The admin configuration on either storage, saved and read by two tasks whose
\* calls interleave, while the database goes down and comes back.
InitConfig == Fresh /\ backend \in {"pg", "hybrid"}
NextConfig ==
    \/ \E t \in Tasks :
          \/ CallSetAdminConfig(t, FALSE, Configs)
          \/ CallRead(t, FALSE, "getAdminConfig")
          \/ PostgresStorage_setAdminConfig(t)
          \/ PostgresStorage_getAdminConfig(t)
          \/ HybridStorage_setAdminConfig(t)
          \/ HybridStorage_getAdminConfig(t)
    \/ PostgresOutage
SpecConfig == InitConfig /\ [][NextConfig]_vars

\* The stores of alice and bob wiped, and an account registered again, one call
\* at a time on either storage, while the database and Redis go down and come
\* back.
NextWipe ==
    \/ \E t \in Tasks :
          \/ CallClearAllData(t, TRUE)
          \/ CallRegisterUser(t, TRUE, {"alice"}, {<<"pw1">>}, {"a@x.com"})
          \/ PostgresStorage_clearAllData(t)
          \/ HybridStorage_clearAllData(t)
          \/ PostgresStorage_registerUser(t)
          \/ HybridStorage_registerUser(t)
    \/ PostgresOutage
    \/ backend = "hybrid" /\ RedisOutage
SpecWipe == InitAccounts /\ [][NextWipe]_vars

\* The storage resolved by two tasks whose calls interleave, through
\* getStorage() and through the DbManager, and closed again, while the database
\* goes down and comes back.
InitFactory == Fresh /\ backend = "hybrid"
NextFactory ==
    \/ \E t \in Tasks :
          \/ \E op \in {"getStorage", "db"} : CallFactory(t, FALSE, op)
          \/ CallFactory(t, TRUE, "closeStorage")
          \/ StorageFactory_resolve(t)
          \/ DbManager_ensureInitialized(t)
          \/ StorageFactory_closeStorage(t)
    \/ \E p \in Procs :
          \/ PostgresStorage_connect(p)
          \/ StorageFactory_assign(p)
    \/ PostgresOutage
SpecFactory == InitFactory /\ [][NextFactory]_vars

\* createStorage() called, one call at a time, under every configuration of the
\* environment: each variable unset or set, REDIS_URL also set to the empty
\* string, STORAGE_TYPE also set to a value that names no backend.
Environments ==
    {e \in [EnvNames -> {<<>>, <<"">>, <<"set">>, <<"kvrocks">>} \cup {<<ty>> : ty \in StorageType}] :
        /\ e["STORAGE_TYPE"] # <<"set">>
        /\ e["REDIS_URL"] \in {<<>>, <<"">>, <<"set">>}
        /\ \A n \in {"UPSTASH_URL", "UPSTASH_TOKEN", "DATABASE_URL", "POSTGRES_URL"} :
              e[n] \in {<<>>, <<"set">>}}
InitSelect == env \in Environments /\ Boot /\ backend = "hybrid"
NextSelect ==
    \/ CallFactory("t1", TRUE, "createStorage")
    \/ StorageFactory_resolve("t1")
    \/ PostgresStorage_connect("t1")
    \/ StorageFactory_assign("t1")
    \/ PostgresOutage
SpecSelect == InitSelect /\ [][NextSelect]_vars

\* Passwords verified and changed, one call at a time, on either storage.  The
\* users table holds alice with a versioned hash and bob with a value stored
\* before hashing was introduced: a plaintext password, one of them beginning
\* with the scheme prefix.  The passwords supplied include the text of a stored
\* hash.
Supplied == Passwords \cup {<<"pbkdf2", "x">>, hashPassword(<<"pw1">>, "s1")}
LegacyValues == {<<"pw1">>, <<"pbkdf2", "x">>}
InitCredentials ==
    \E old \in LegacyValues : Accounts(<<hashPassword(<<"pw1">>, "s1"), old>>)
NextCredentials ==
    \/ \E t \in Tasks :
          \/ CallVerifyUser(t, TRUE, {"bob"}, Supplied)
          \/ CallChangePassword(t, TRUE, {"bob"}, Passwords)
          \/ PostgresStorage_verifyUser(t)
          \/ PostgresStorage_changePassword(t)
          \/ HybridStorage_verifyUser(t)
          \/ HybridStorage_changePassword(t)
    \/ PostgresOutage
SpecCredentials == InitCredentials /\ [][NextCredentials]_vars

\* alice is a user and bob is not: records set for both and alice deleted, by
\* two tasks whose calls interleave, on either storage, while Redis goes down
\* and comes back.
InitOwnership == InitHistory
NextOwnership ==
    \/ \E t \in Tasks :
          \/ CallSetRecord(t, FALSE, "setFavorite", Names, {AccountKey}, {"p1"})
          \/ CallAddSearchHistory(t, FALSE, {"alice"}, {"k1"})
          \/ CallUserWrite(t, FALSE, "deleteUser", {"alice"})
          \/ PostgresStorage_setFavorite(t)
          \/ PostgresStorage_addSearchHistory(t)
          \/ PostgresStorage_deleteUser(t)
          \/ HybridStorage_setFavorite(t)
          \/ HybridStorage_addSearchHistory(t)
          \/ HybridStorage_deleteUser(t)
    \/ backend = "hybrid" /\ RedisOutage
SpecOwnership == InitOwnership /\ [][NextOwnership]_vars

\* Every per-user record operation of HybridStorage, one call at a time, for
\* alice, while Redis goes down and comes back.
InitHybridRecords == InitAccounts /\ backend = "hybrid"
NextHybridRecords ==
    \/ \E t \in Tasks :
          \/ CallSetRecord(t, TRUE, "setFavorite", {"alice"}, {AccountKey}, {"p1"})
          \/ CallSetRecord(t, TRUE, "setPlayRecord", {"alice"}, {AccountKey}, {"p1"})
          \/ CallSetSkipConfig(t, TRUE, {"alice"}, Sources, {<<"i1">>}, {"p1"})
          \/ \E op \in {"getFavorite", "getPlayRecord", "deleteFavorite", "deletePlayRecord"} :
                CallDeleteRecord(t, TRUE, op, {"alice"}, {AccountKey})
          \/ CallDeleteSkipConfig(t, TRUE, {"alice"}, Sources, {<<"i1">>})
          \/ \E u \in {"alice"} :
                Call(t, TRUE, "getSkipConfig", [u |-> u, source |-> <<"src">>, id |-> <<"i1">>],
                     RecordStart)
          \/ \E op \in {"getAllFavorites", "getAllPlayRecords", "getAllSkipConfigs",
                          "getSearchHistory"} : CallRecordRead(t, TRUE, op, {"alice"})
          \/ CallAddSearchHistory(t, TRUE, {"alice"}, {"k1"})
          \/ CallDeleteSearchHistory(t, TRUE, {"alice"}, {<<>>, <<"k1">>})
          \/ HybridStorage_getFavorite(t)
          \/ HybridStorage_getAllFavorites(t)
          \/ HybridStorage_setFavorite(t)
          \/ HybridStorage_deleteFavorite(t)
          \/ HybridStorage_getPlayRecord(t)
          \/ HybridStorage_getAllPlayRecords(t)
          \/ HybridStorage_setPlayRecord(t)
          \/ HybridStorage_deletePlayRecord(t)
          \/ HybridStorage_getSearchHistory(t)
          \/ HybridStorage_addSearchHistory(t)
          \/ HybridStorage_deleteSearchHistory(t)
          \/ HybridStorage_getSkipConfig(t)
          \/ HybridStorage_getAllSkipConfigs(t)
          \/ HybridStorage_setSkipConfig(t)
          \/ HybridStorage_deleteSkipConfig(t)
    \/ RedisOutage
SpecHybridRecords == InitHybridRecords /\ [][NextHybridRecords]_vars

\* Logins of alice and bob, one call at a time, on either storage, as time
\* passes and the database goes down and comes back.  bob's account may have
\* been deactivated.
InitLogin ==
    \E active \in BOOLEAN :
        AccountRows(<<AccountRow(1, hashPassword(<<"pw1">>, "s1"), TRUE),
                      AccountRow(2, hashPassword(<<"pw2">>, "s1"), active)>>)
NextLogin ==
    \/ \E t \in Tasks :
          \/ CallVerifyUser(t, TRUE, Names, Passwords)
          \/ PostgresStorage_verifyUser(t)
          \/ HybridStorage_verifyUser(t)
    \/ Tick
    \/ PostgresOutage
SpecLogin == InitLogin /\ [][NextLogin]_vars

\* db.clearAllData() on a PostgreSQL, a hybrid and an Upstash deployment that
\* hold the accounts of alice and bob, one call at a time, while the database
\* goes down and comes back.
DeploymentOf(type) ==
    [v \in EnvNames |->
        CASE v = "STORAGE_TYPE" -> <<type>>
          [] v \in {"DATABASE_URL", "REDIS_URL"} -> <<"set">>
          [] v \in {"UPSTASH_URL", "UPSTASH_TOKEN"} -> IF type = "upstash" THEN <<"set">> ELSE <<>>
          [] OTHER -> <<>>]
LayerOf(type) == IF type = "postgres" THEN "pg" ELSE type
InitDbClear ==
    \E type \in {"postgres", "hybrid", "upstash"} :
        /\ env = DeploymentOf(type)
        /\ backend = LayerOf(type)
        /\ AccountData([n \in 1..2 |-> AccountRow(n, hashPassword(<<"pw1">>, "s1"), TRUE)])
NextDbClear ==
    \/ \E t \in Tasks :
          \/ CallDbClearAllData(t, TRUE)
          \/ DbManager_ensureInitialized(t)
          \/ DbManager_clearAllData(t)
          \/ PostgresStorage_clearAllData(t)
          \/ HybridStorage_clearAllData(t)
    \/ \E p \in Procs :
          \/ PostgresStorage_connect(p)
          \/ StorageFactory_assign(p)
    \/ PostgresOutage
SpecDbClear == InitDbClear /\ [][NextDbClear]_vars

\* ===================================================================== claims
PrevCall == hist[1]
LastCall == hist[2]
WriteOps == {"registerUser", "changePassword", "deleteUser", "setUserInfo",
             "updateLastLogin", "setAdminConfig"}
\* u was registered through the store and has not been deleted since.
IsRegistered(u) == \E i \in 1..Len(registered) : registered[i].u = u
PgWriteDone(frame) == frame.pgOut # <<>> /\ frame.pgOut[1].ok
\* The cache commands of a call all went through (cache enabled and reachable).
CacheWorked(log) == \A i \in 1..Len(log) : log[i] \notin {"off", "error"}

\* C1: a step of a HybridStorage write changes the cache only after
\* its PostgresStorage write succeeded, and only by deleting keys: it never
\* stores a value under a cache key.
C1_WritesOnlyInvalidate ==
    [][\A t \in Tasks :
         (pc[t].op \in WriteOps /\ pc[t].step # pc'[t].step /\ redis' # redis)
            => /\ PgWriteDone(pc[t])
               /\ \A k \in CacheKeys : redis'[k] = redis[k] \/ redis'[k] = <<>>]_vars

\* C2: setUserInfo(u, info) of an existing user that resolved, followed at once
\* by getUserInfo(u), makes getUserInfo return info.
SetThenGet ==
    /\ PrevCall.op = "setUserInfo" /\ PrevCall.layer = "hybrid" /\ PrevCall.ok
    /\ LastCall.op = "getUserInfo" /\ LastCall.layer = "hybrid"
    /\ LastCall.arg.u = PrevCall.arg.u
    /\ IsRegistered(PrevCall.arg.u)
ReturnsInfo ==
    /\ LastCall.ok
    /\ LastCall.val # <<>>
    /\ SameInfo(LastCall.val[1], PrevCall.arg.info)
C2_SetThenGetReturnsInfo == SetThenGet => ReturnsInfo

\* C3 (as stated): a getUserInfo(u) made while the cache holds an entry for u
\* returns that entry and reads nothing from PostgresStorage.
ReadWithEntry ==
    /\ LastCall.op = "getUserInfo" /\ LastCall.layer = "hybrid"
    /\ LastCall.seen # <<>>
ServedFromCache ==
    /\ LastCall.ok
    /\ LastCall.val = <<JSONparse(LastCall.seen[1].value)>>
    /\ LastCall.pgOut = <<>>
C3_CachedReadHidesDatabase == ReadWithEntry => ServedFromCache
\* C3 (amended): ... while the cache is enabled and reachable.
C3_CachedReadHidesDatabaseWhileCacheWorks ==
    (ReadWithEntry /\ CacheWorked(LastCall.cacheLog)) => ServedFromCache
\* The row was changed behind the store's back and the read still returned the
\* entry, which differs from the row.
C3_Witness ==
    /\ ReadWithEntry /\ CacheWorked(LastCall.cacheLog) /\ ServedFromCache
    /\ PrevCall.op = "direct"
    /\ PgUserInfo(users, LastCall.arg.u) # <<>>
    /\ ~SameInfo(LastCall.val[1], PgUserInfo(users, LastCall.arg.u)[1])

\* C4: a cached read whose every cache command failed because Redis was
\* unreachable completes as its PostgresStorage call completed: it resolves with
\* the value PostgresStorage returned, and rejects only when PostgresStorage did.
CachedReads == {"checkUserExist", "getAllUsers", "getUserInfo", "getAdminConfig"}
CacheUnreachable(log) == Len(log) > 0 /\ \A i \in 1..Len(log) : log[i] = "error"
ReadDuringOutage ==
    /\ LastCall.layer = "hybrid" /\ LastCall.op \in CachedReads
    /\ CacheUnreachable(LastCall.cacheLog)
C4_ReadsSurviveCacheOutage ==
    ReadDuringOutage =>
        /\ LastCall.pgOut # <<>>
        /\ LastCall.ok = LastCall.pgOut[1].ok
        /\ LastCall.val = LastCall.pgOut[1].val
\* Redis failed on the read and on the write back, the read resolved, and what it
\* returned is not what the cache holds under the key.
C4_Witness ==
    /\ ReadDuringOutage /\ Len(LastCall.cacheLog) = 2
    /\ LastCall.ok
    /\ LastCall.seen # <<>>
    /\ LastCall.val # <<JSONparse(LastCall.seen[1].value)>>

\* C5: a HybridStorage operation whose PostgresStorage write succeeded resolves,
\* whatever happens to the Redis commands that follow the write.
C5_CacheFailureNeverFailsWrite ==
    (/\ LastCall.layer = "hybrid"
     /\ LastCall.op \in WriteOps \cup {"verifyUser"}
     /\ PgWriteDone(LastCall))
        => LastCall.ok

\* C6: right after a deleteUser(u) that completed with the cache enabled and
\* reachable the cache holds none of u's keys and no users:all entry, and a
\* getUserInfo(u) that follows returns null.
UserDeleted(call, u) == call.op = "deleteUser" /\ call.ok /\ call.arg.u = u
C6_DeleteUserClearsUserKeys ==
    \A u \in Names :
        /\ (/\ UserDeleted(LastCall, u) /\ LastCall.layer = "hybrid"
            /\ CacheWorked(LastCall.cacheLog) /\ AllIdle)
              => \A k \in ClearUserCacheKeys(u) \cup {getCacheKey("users", "all")} :
                    redis[k] = <<>>
        /\ (/\ UserDeleted(PrevCall, u) /\ PrevCall.layer = "hybrid"
            /\ CacheWorked(PrevCall.cacheLog)
            /\ LastCall.op = "getUserInfo" /\ LastCall.arg.u = u)
              => (LastCall.ok /\ LastCall.val = <<>>)

\* C7 (as stated): after deleteUser(u) resolved, neither store holds a record of
\* u, a read of u's favorites, play records, skip configs or search history that
\* follows is empty and a getAllUsers() that follows does not list u; the step
\* of deleteUser that removes rows leaves the rows of every other user alone.
RecordReads == {"getAllFavorites", "getAllPlayRecords", "getAllSkipConfigs",
                "getSearchHistory"}
NoRecordsLeft(u) ==
    /\ \A tb \in RecordTables : SelectRecordsOf(records[tb], u) = <<>>
    /\ SelectKeywords(search_history, u) = <<>>
    /\ \A kind \in KvKinds : DOMAIN KvAll(kv, kind, u) = {}
    /\ kvSearch[u] = <<>>
Listed(list) == {list[n] : n \in 1..Len(list)}
RecordsGone(u) ==
    /\ UserDeleted(LastCall, u) => NoRecordsLeft(u)
    /\ (/\ UserDeleted(PrevCall, u)
        /\ LastCall.op \in RecordReads /\ LastCall.arg.u = u /\ LastCall.ok)
          => DOMAIN LastCall.val[1] = {}
OthersOf(tbl, u) == SelectSeq(tbl, LAMBDA r : r.username # u)
OthersKept(u) ==
    /\ OthersOf(users', u) = OthersOf(users, u)
    /\ \A tb \in RecordTables : OthersOf(records'[tb], u) = OthersOf(records[tb], u)
    /\ OthersOf(search_history', u) = OthersOf(search_history, u)
    /\ \A x \in DOMAIN kv : x[2] # u => kv'[x] = kv[x]
    /\ \A v \in Names \ {u} : kvSearch'[v] = kvSearch[v]
DeleteKeepsOthers ==
    \A t \in Tasks : pc[t].op = "deleteUser" => OthersKept(pc[t].arg.u)
C7_DeleteUserCascades ==
    /\ [](\A u \in Names :
            /\ RecordsGone(u)
            /\ (UserDeleted(PrevCall, u) /\ LastCall.op = "getAllUsers" /\ LastCall.ok)
                  => u \notin Listed(LastCall.val[1]))
    /\ [][DeleteKeepsOthers]_vars
\* C7 (amended): ... getAllUsers() does not list u provided the cache was enabled
\* and reachable when deleteUser removed its entries.
C7_DeleteUserCascadesWhileCacheWorks ==
    /\ [](\A u \in Names :
            /\ RecordsGone(u)
            /\ (/\ UserDeleted(PrevCall, u) /\ CacheWorked(PrevCall.cacheLog)
                /\ LastCall.op = "getAllUsers" /\ LastCall.ok)
                  => u \notin Listed(LastCall.val[1]))
    /\ [][DeleteKeepsOthers]_vars
\* alice was deleted through HybridStorage with the cache at work, the
\* getAllUsers() that followed went to the database and lists bob only, and
\* bob's records are all there.
C7_Witness ==
    /\ UserDeleted(PrevCall, "alice") /\ PrevCall.layer = "hybrid"
    /\ CacheWorked(PrevCall.cacheLog)
    /\ LastCall.op = "getAllUsers" /\ LastCall.ok
    /\ LastCall.cacheLog = <<"miss", "set">>
    /\ LastCall.val = <<(<<"bob">>)>>
    /\ NoRecordsLeft("alice")
    /\ \A kind \in KvKinds : DOMAIN KvAll(kv, kind, "bob") = {AccountKey}
    /\ kvSearch["bob"] = <<"k1">>

\* C8: a call made after registerUser(name, pw, email) has resolved sees the
\* user, whatever calls were in flight during the registration:
\* checkUserExist(name) yields true, checkEmailExist(email) yields true and
\* verifyUser(name, p) yields whether p = pw.
C8_RegisteredUserIsSeen ==
    \A i \in 1..Len(registered) :
        LET r == registered[i] IN
        (LastCall.ok /\ r.u \in LastCall.known) =>
            /\ (LastCall.op = "checkUserExist" /\ LastCall.arg.u = r.u)
                  => LastCall.val = <<TRUE>>
            /\ (LastCall.op = "checkEmailExist" /\ LastCall.arg.email = r.email)
                  => LastCall.val = <<TRUE>>
            /\ (LastCall.op = "verifyUser" /\ LastCall.arg.u = r.u)
                  => LastCall.val = <<LastCall.arg.pw = r.pw>>

\* C9: the users table never holds two rows with one username or one email; the
\* registrations that resolved never share a username or an email; and a
\* registration that resolved has its row in the table.
C9_UniqueUsers ==
    /\ \A i, j \in 1..Len(users) :
          i # j => (users[i].username # users[j].username /\ users[i].email # users[j].email)
    /\ \A i, j \in 1..Len(registered) :
          i # j => (registered[i].u # registered[j].u /\ registered[i].email # registered[j].email)
    /\ \A i \in 1..Len(registered) :
          \E n \in 1..Len(users) :
              users[n].username = registered[i].u /\ users[n].email = registered[i].email
\* Two tasks registered different names with one email: the first call resolved,
\* the other was rejected after its retries, and the table holds the one row.
C9_Witness ==
    /\ PrevCall.op = "registerUser" /\ PrevCall.ok
    /\ LastCall.op = "registerUser" /\ ~LastCall.ok
    /\ PrevCall.task # LastCall.task
    /\ PrevCall.arg.email = LastCall.arg.email
    /\ PrevCall.arg.u # LastCall.arg.u
    /\ Len(users) = 1 /\ users[1].username = PrevCall.arg.u

\* C10: a table never holds two records of one (username, source, itemId); the
\* last set call that resolved has its payload in the one record of its key; the
\* step that applies a set adds its key to the keys of the table, stores the
\* payload and leaves every other record alone; and the step that applies a
\* delete removes its key only.  So the records of a user are as many as the
\* keys written and not deleted.
SetTable == [setFavorite |-> "favorites", setPlayRecord |-> "play_records",
             setSkipConfig |-> "skip_configs"]
KeyOfCall(arg) ==
    IF "key" \in DOMAIN arg THEN <<arg.u, SplitSource(arg.key), SplitItemId(arg.key)>>
    ELSE <<arg.u, arg.source, arg.id>>
KeyOfRow(r) == <<r.username, r.source, r.item_id>>
KeysOf(tbl) == {KeyOfRow(tbl[n]) : n \in 1..Len(tbl)}
RowsOf(tbl, k) == SelectSeq(tbl, LAMBDA r : KeyOfRow(r) = k)
RowsBut(tbl, k) == SelectSeq(tbl, LAMBDA r : KeyOfRow(r) # k)
OneRecordPerKey ==
    \A tb \in RecordTables : Len(records[tb]) = Cardinality(KeysOf(records[tb]))
LastWriteStored ==
    (LastCall.op \in DOMAIN SetTable /\ LastCall.ok) =>
        LET k == KeyOfCall(LastCall.arg)
            rows == RowsOf(records[SetTable[LastCall.op]], k)
        IN  Len(rows) = 1 /\ JSONparse(rows[1].data) = LastCall.arg.data
Resolves(t) == pc[t].op # "idle" /\ pc'[t].op = "idle" /\ hist'[2].ok
SetApplied(t) ==
    (pc[t].op \in DOMAIN SetTable /\ Resolves(t)) =>
        LET k == KeyOfCall(pc[t].arg)
            tb == SetTable[pc[t].op]
        IN  /\ KeysOf(records'[tb]) = KeysOf(records[tb]) \cup {k}
            /\ RowsBut(records'[tb], k) = RowsBut(records[tb], k)
            /\ \A other \in RecordTables \ {tb} : records'[other] = records[other]
DeleteApplied(t) ==
    (pc[t].op = "deleteFavorite" /\ Resolves(t)) =>
        LET k == KeyOfCall(pc[t].arg)
        IN  /\ KeysOf(records'.favorites) = KeysOf(records.favorites) \ {k}
            /\ RowsBut(records'.favorites, k) = RowsBut(records.favorites, k)
            /\ \A other \in RecordTables \ {"favorites"} : records'[other] = records[other]
C10_UpsertKeepsOneRecord ==
    /\ [](OneRecordPerKey /\ LastWriteStored)
    /\ [][\A t \in Tasks : SetApplied(t) /\ DeleteApplied(t)]_vars
\* The two tasks wrote one favorite with different payloads, one after the
\* other; the table holds one record for the key, with the second payload, next
\* to the record of another key.
C10_Witness ==
    /\ PrevCall.op = "setFavorite" /\ PrevCall.ok
    /\ LastCall.op = "setFavorite" /\ LastCall.ok
    /\ PrevCall.task # LastCall.task
    /\ PrevCall.arg.key = LastCall.arg.key
    /\ PrevCall.arg.data # LastCall.arg.data
    /\ Len(records.favorites) = 2
    /\ Len(RowsOf(records.favorites, KeyOfCall(LastCall.arg))) = 1
    /\ LastWriteStored


\* C11: read after any series of addSearchHistory calls made one at a time, the
\* search history of a user is the keywords added, each once, ordered by their
\* latest add with the most recent first and cut to the 20 most recent; no read
\* returns more than 20 keywords, and no more than these are kept stored.
Newest(list) == IF Len(list) > HistoryLimit THEN SubSeq(list, 1, HistoryLimit) ELSE list
StoredKeywords(u) ==
    LET rows == SelectSeq(search_history, LAMBDA r : r.username = u)
    IN  [m \in 1..Len(rows) |-> rows[Len(rows) + 1 - m].keyword]
C11_HistoryIsLatestTwenty ==
    /\ LastCall.op = "getSearchHistory" /\ LastCall.ok
          => /\ LastCall.val = <<Newest(added[LastCall.arg.u])>>
             /\ Len(LastCall.val[1]) <= HistoryLimit
    /\ AllIdle /\ backend = "pg"
          => \A u \in Names : StoredKeywords(u) = Newest(added[u])
C11_Witness ==
    /\ backend = "pg"
    /\ LastCall.op = "getSearchHistory" /\ LastCall.ok
    /\ Len(added["alice"]) = MaxKeywords
    /\ Len(LastCall.val[1]) = HistoryLimit
    /\ LastCall.val[1][1] = 1
    /\ PrevCall.op = "addSearchHistory" /\ PrevCall.ok

\* C12: the stored search history of a user never holds a keyword twice, however
\* the statements of concurrent addSearchHistory calls interleave.
C12_NoKeywordTwice ==
    \A m, n \in 1..Len(search_history) :
        /\ search_history[m].username = search_history[n].username
        /\ search_history[m].keyword = search_history[n].keyword
        => m = n

\* C13: withRetry on an operation that fails at every attempt runs it exactly
\* maxRetries times, waits delay * 2^i after failed attempt i (from 0) but not
\* after the last one, and rejects with the error of the operation; it never
\* runs the operation more than maxRetries times, and every call comes to an end.
Rejected(e) == e.pgOut # <<>> /\ ~e.pgOut[1].ok
BackedOff(failed) ==
    /\ Len(failed) = maxRetries
    /\ \A i \in 0..maxRetries-2 : failed[i+1].slept = <<delay * 2^i>>
    /\ failed[maxRetries].slept = <<>>
AttemptsBounded ==
    \A t \in Tasks : pc[t].tries < maxRetries /\ Len(pc[t].failed) = pc[t].tries
RetriesThenRejects ==
    Rejected(LastCall) =>
        /\ ~LastCall.ok
        /\ BackedOff(LastCall.failed)
        /\ LastCall.pgOut[1].error = Last(LastCall.failed).error
C13_RetriesThenRejects ==
    /\ [](AttemptsBounded /\ RetriesThenRejects)
    /\ \A t \in Tasks : (pc[t].op # "idle") ~> (pc[t].op = "idle")
C13_Witness ==
    /\ Rejected(LastCall) /\ LastCall.op = "checkUserExist"
    /\ LastCall.failed =
          <<FailedAttempt("connection refused", <<1000>>),
            FailedAttempt("connection refused", <<2000>>),
            FailedAttempt("connection refused", <<>>)>>

\* C14: a registerUser whose INSERT was applied while the attempt was reported
\* to withRetry as failed still reports success, with exactly one row of the user.
AckWasLost(e) ==
    \E i \in 1..Len(e.failed) : e.failed[i].error = "connection terminated"
C14_AppliedRegisterSucceeds ==
    LastCall.op = "registerUser" /\ AckWasLost(LastCall)
        => LastCall.ok /\ Len(SelectUser(users, LastCall.arg.u)) = 1

\* C15: a registerUser whose INSERT breaks the username or email constraint is
\* attempted once: the violation is rejected with no further attempt and no wait.
C15_ConstraintViolationNotRetried ==
    /\ LastCall.op = "registerUser" /\ Rejected(LastCall)
    /\ LastCall.failed[1].error = "constraint"
    => Len(LastCall.failed) = 1 /\ LastCall.failed[1].slept = <<>>

\* C16: the admin_config table never holds more than one document, however the
\* DELETE and INSERT statements of setAdminConfig calls interleave, and holds
\* exactly one once the calls have completed.
C16_OneConfigDocument ==
    /\ Len(admin_config) <= 1
    /\ AllIdle /\ LastCall.op = "setAdminConfig" /\ LastCall.ok => Len(admin_config) = 1

\* C17: setAdminConfig is atomic: once a document has been saved a getAdminConfig
\* never finds none, and a setAdminConfig that is rejected leaves a document in
\* place.
SavedBefore == PrevCall.op = "setAdminConfig" /\ PrevCall.ok
C17_SetAdminConfigAtomic ==
    /\ SavedBefore /\ LastCall.op = "getAdminConfig" /\ LastCall.ok
          => LastCall.val # <<>>
    /\ SavedBefore /\ LastCall.op = "setAdminConfig" /\ ~LastCall.ok /\ AllIdle
          => PgAdminConfig(admin_config) # <<>>

\* C18: on HybridStorage, a getAdminConfig made when every setAdminConfig has
\* completed returns the document PostgresStorage holds as the last one saved.
C18_ConfigReadIsLatestSaved ==
    /\ AllIdle /\ Len(admin_config) = 1
    /\ LastCall.op = "getAdminConfig" /\ LastCall.layer = "hybrid" /\ LastCall.ok
    => LastCall.val = PgAdminConfig(admin_config)

\* C19: PostgresStorage.clearAllData is all or nothing: when it resolves all six
\* tables are empty, and when it rejects (any step of any attempt having failed)
\* every table holds the rows it held before the call; no step before the COMMIT
\* changes a table.
WipeSettles(t) == pc[t].op = "clearAllData" /\ pc[t].layer = "pg" /\ pc'[t].op = "idle"
WipeRuns(t) == pc[t].op = "clearAllData" /\ pc[t].layer = "pg" /\ pc'[t].op # "idle"
C19_ClearAllDataAllOrNothing ==
    [][\A t \in Tasks :
          /\ WipeSettles(t) =>
                IF hist'[2].ok THEN Db' = EmptyDb ELSE Db' = pc[t].before[1]
          /\ WipeRuns(t) => Db' = pc[t].before[1]]_vars
C19_Witness ==
    /\ LastCall.op = "clearAllData" /\ LastCall.layer = "pg" /\ ~LastCall.ok
    /\ \E i \in 1..maxRetries : LastCall.failed[i].error = "connection terminated"
    /\ LastCall.before[1].users # <<>>
    /\ Db = LastCall.before[1]

\* C20: HybridStorage.clearAllData resolves only if both wipes succeeded; as soon
\* as one of them fails the call is rejected, and a wipe that has been completed
\* stays completed.
Wiping(t) == pc[t].op = "clearAllData" /\ pc[t].layer = "hybrid"
BothWiped(e) == e.pgOut # <<>> /\ e.pgOut[1].ok /\ e.redisOut = <<TRUE>>
C20_ClearAllDataNeedsBothWipes ==
    /\ LastCall.op = "clearAllData" /\ LastCall.layer = "hybrid"
          => (LastCall.ok <=> BothWiped(LastCall))
    /\ \A t \in Tasks :
          Wiping(t) =>
             /\ Rethrown(pc[t]) \/ pc[t].redisOut = <<FALSE>>
                   => pc[t].settled /\ LastCall.op = "clearAllData" /\ ~LastCall.ok
             /\ pc[t].step = "pg_ok" => Db = EmptyDb
             /\ pc[t].redisOut = <<TRUE>> => \A x \in DOMAIN kv : kv[x] = <<>>
C20_Witness ==
    /\ LastCall.op = "clearAllData" /\ LastCall.layer = "hybrid" /\ ~LastCall.ok
    /\ LastCall.redisOut = <<FALSE>>
    /\ LastCall.pgOut # <<>> /\ LastCall.pgOut[1].ok
    /\ LastCall.before[1].users # <<>> /\ Db = EmptyDb
    /\ \E x \in DOMAIN kv : kv[x] # <<>>


\* The processes that are running an initialization sequence they started:
\* they constructed a storage and are connecting it or about to hand it over.
Initializing ==
    {p \in Procs : /\ pc[p].op \in {"getStorage", "initialize"}
                   /\ pc[p].step \in {"connect", "tables", "assign"}
                   /\ pc[p].arg.created}
\* C21: when several callers resolve the storage while no instance is cached,
\* one initialization sequence runs: never are two of them under way at once.
C21_SingleFlight == Cardinality(Initializing) <= 1

\* C22: a failed initialization is not permanent: a db.* call made after the
\* initialization failed, and settled with the database reachable, has run the
\* initialization again and has resolved.
C22_FailedInitIsRetried ==
    (/\ LastCall.op = "db"
     /\ LastCall.before[1].promise = "rejected"
     /\ pgUp)
    => (LastCall.ok /\ Len(instances) > LastCall.before[1].created)

\* C23: once getStorage() has returned an instance, and closeStorage has not
\* been called since, a later getStorage() returns that instance and
\* constructs nothing.
C23_ResolvedIsStable ==
    (/\ LastCall.op = "getStorage"
     /\ LastCall.before[1].returned # <<>>
     /\ returned = LastCall.before[1].returned)
    => (/\ LastCall.ok
        /\ LastCall.val = LastCall.before[1].returned
        /\ ~LastCall.arg.created)

\* C26: whenever no operation is in flight, no storage has a pooled connection
\* checked out.
C26_NoClientLeaked ==
    (\A p \in Procs : pc[p].op = "idle")
    => \A i \in 1..Len(instances) : instances[i].checkedOut = 0

IsSet(name) == Truthy(env[name])
\* The calls of createStorage, settled or under way.
CreateCalls ==
    {pc[p] : p \in {q \in Procs : pc[q].op = "createStorage" /\ pc[q].step # "check"}}
        \cup (IF LastCall.op = "createStorage" THEN {LastCall} ELSE {})
\* The backend the precedence rules name for the environment (none when the
\* rules name none).
Selected ==
    IF IsSet("STORAGE_TYPE") /\ env["STORAGE_TYPE"][1] \in {"upstash", "postgres", "redis", "hybrid"}
    THEN {env["STORAGE_TYPE"][1]}
    ELSE IF IsSet("UPSTASH_URL") /\ IsSet("UPSTASH_TOKEN") THEN {"upstash"}
    ELSE IF IsSet("DATABASE_URL") /\ IsSet("REDIS_URL") THEN {"hybrid"}
    ELSE IF IsSet("DATABASE_URL") THEN {"postgres"}
    ELSE IF IsSet("REDIS_URL") THEN {"redis"}
    ELSE {}
\* C24: a valid STORAGE_TYPE is selected whatever connection variables are
\* present; otherwise upstash, hybrid, postgres, redis are selected in this
\* order by the connection variables that are set.
C24_SelectionPrecedence ==
    \A c \in CreateCalls : Selected # {} => c.arg.type \in Selected
\* createStorage ran with STORAGE_TYPE unset and the variables of several
\* backends set, and returned the storage the precedence names.
C24_Witness ==
    /\ LastCall.op = "createStorage" /\ LastCall.ok
    /\ ~IsSet("STORAGE_TYPE") /\ ~IsSet("UPSTASH_TOKEN")
    /\ IsSet("UPSTASH_URL") /\ IsSet("DATABASE_URL") /\ IsSet("REDIS_URL")
    /\ instances[LastCall.val[1]].type = "hybrid"

\* The connection parameters the backend requires that the configuration lacks.
MissingParameter(type) ==
    CASE type = "upstash" -> ~IsSet("UPSTASH_URL") \/ ~IsSet("UPSTASH_TOKEN")
      [] type = "postgres" -> ~IsSet("DATABASE_URL") /\ ~IsSet("POSTGRES_URL")
      [] type = "redis" -> ~IsSet("REDIS_URL")
      [] type = "hybrid" -> \/ ~IsSet("DATABASE_URL") /\ ~IsSet("POSTGRES_URL")
                            \/ ~IsSet("REDIS_URL")
\* C25: createStorage fails, and constructs no backend, whenever a connection
\* parameter the selected backend requires is missing.
C25_MissingParameterIsFatal ==
    /\ \A c \in CreateCalls : MissingParameter(c.arg.type) => ~c.arg.created
    /\ LastCall.op = "createStorage" /\ MissingParameter(LastCall.arg.type) => ~LastCall.ok

\* The row of u that an active-user lookup finds.
StoredHash(u) ==
    LET rows == SelectActiveUser(users, u)
    IN  IF Len(rows) = 0 THEN <<>> ELSE <<rows[1].password_hash>>
HashedValues == {hashPassword(p, salt) : p \in Passwords, salt \in Salts}
\* C27: verifyPassword(P2, hashPassword(P)) is true exactly when P2 = P; and a
\* verifyUser(u, P) that follows a changePassword(u, N) of the user u returns
\* true when P = N and false otherwise.
C27_CredentialRoundTrip ==
    /\ \A p \in Passwords, p2 \in Supplied, salt \in Salts :
          verifyPassword(p2, hashPassword(p, salt)) = (p2 = p)
    /\ (/\ PrevCall.op = "changePassword" /\ PrevCall.ok
        /\ LastCall.op = "verifyUser" /\ LastCall.ok
        /\ LastCall.arg.u = PrevCall.arg.u
        /\ HasUser(users, LastCall.arg.u))
       => LastCall.val = <<LastCall.arg.pw = PrevCall.arg.pw>>
\* bob's password was changed from pw1 to pw2, and pw1 is then refused.
C27_Witness ==
    /\ PrevCall.op = "changePassword" /\ PrevCall.ok
    /\ PrevCall.arg.u = "bob" /\ PrevCall.arg.pw = <<"pw2">>
    /\ LastCall.op = "verifyUser" /\ LastCall.ok
    /\ LastCall.arg.u = "bob" /\ LastCall.arg.pw = <<"pw1">>
    /\ LastCall.val = <<FALSE>>

\* C28: a stored value without the scheme prefix is compared as plaintext, and
\* the password is accepted exactly when it equals the stored value; a stored
\* value with the prefix is never accepted for being equal to the password.
C28_LegacyPathIffNoPrefix ==
    /\ \A h \in LegacyValues \cup HashedValues, p \in Supplied :
          /\ ~StartsWithScheme(h) => verifyPassword(p, h) = (h = p)
          /\ StartsWithScheme(h) /\ h = p => verifyPasswordThrows(h) \/ ~verifyPassword(p, h)
    /\ (/\ LastCall.op = "verifyUser"
        /\ StoredHash(LastCall.arg.u) # <<>>)
       => LET h == StoredHash(LastCall.arg.u)[1] IN
          /\ ~StartsWithScheme(h) /\ LastCall.ok => LastCall.val = <<h = LastCall.arg.pw>>
          /\ StartsWithScheme(h) /\ h = LastCall.arg.pw => LastCall.val # <<TRUE>>
\* bob's stored value is the plaintext pw1 and verifyUser('bob', pw1) returned
\* true.
C28_Witness ==
    /\ LastCall.op = "verifyUser" /\ LastCall.ok
    /\ LastCall.arg = [u |-> "bob", pw |-> <<"pw1">>]
    /\ StoredHash("bob") = <<<<"pw1">>>>
    /\ LastCall.val = <<TRUE>>

\* The users that own a record in the database or in the cache store.
RecordOwners ==
    UNION {{records[tb][i].username : i \in 1..Len(records[tb])} : tb \in RecordTables}
        \cup {search_history[i].username : i \in 1..Len(search_history)}
        \cup {x[2] : x \in {y \in DOMAIN kv : kv[y] # <<>>}}
        \cup {u \in Names : kvSearch[u] # <<>>}
\* C29: in every reachable state, every stored Favorite, PlayRecord,
\* SearchHistoryEntry and SkipConfig belongs to a username that exists as a User.
C29_RecordsHaveOwners == \A u \in RecordOwners : HasUser(users, u)

RecordOps ==
    {"getFavorite", "getAllFavorites", "setFavorite", "deleteFavorite",
     "getPlayRecord", "getAllPlayRecords", "setPlayRecord", "deletePlayRecord",
     "getSearchHistory", "addSearchHistory", "deleteSearchHistory",
     "getSkipConfig", "getAllSkipConfigs", "setSkipConfig", "deleteSkipConfig"}
RecordTablesEmpty ==
    /\ \A tb \in RecordTables : records[tb] = <<>>
    /\ search_history = <<>>
\* A step of a record operation of HybridStorage.
HybridRecordStep ==
    \E t \in Tasks : /\ pc[t].op \in RecordOps /\ pc[t].layer = "hybrid"
                      /\ pc'[t] # pc[t]
\* C30: in hybrid mode the record tables of the relational store stay empty, a
\* record operation changes nothing in the relational store, and it settles
\* without a PostgresStorage method having been called.
C30_RecordsLiveInCacheOnly ==
    /\ [](backend = "hybrid" => RecordTablesEmpty)
    /\ [][HybridRecordStep => UNCHANGED pgVars]_vars
    /\ [](LastCall.op \in RecordOps /\ LastCall.layer = "hybrid" => LastCall.pgOut = <<>>)
\* setFavorite has stored a favorite of alice in the cache store, read back by
\* getFavorite.
C30_Witness ==
    /\ backend = "hybrid"
    /\ PrevCall.op = "setFavorite" /\ PrevCall.ok
    /\ LastCall.op = "getFavorite" /\ LastCall.ok
    /\ LastCall.val = <<"p1">>
    /\ kv[KvKey("fav", "alice", AccountKey)] # <<>>

\* An active user named u exists in tbl and pw verifies against its stored hash.
Verifies(tbl, u, pw) ==
    \E i \in 1..Len(tbl) : /\ tbl[i].username = u /\ tbl[i].is_active
                            /\ verifyPassword(pw, tbl[i].password_hash)
\* The rows of tbl but for the last-login time of u.
ButLastLogin(tbl, u) ==
    [i \in 1..Len(tbl) |->
        IF tbl[i].username = u THEN [tbl[i] EXCEPT !.last_login = NULL] ELSE tbl[i]]
\* C31: verifyUser(name, password) returns true exactly when an active user of
\* that name exists and the password verifies; when it has returned true the
\* user's last-login time is the time of the call and nothing else has changed,
\* and when it has returned false no row has changed.
C31_VerifyUserContract ==
    (AllIdle /\ LastCall.op = "verifyUser" /\ LastCall.ok)
    => LET found == LastCall.before[1].users
           u == LastCall.arg.u
       IN  /\ LastCall.val = <<Verifies(found, u, LastCall.arg.pw)>>
           /\ LastCall.val = <<TRUE>>
                 => /\ ButLastLogin(users, u) = ButLastLogin(found, u)
                    /\ \E i \in 1..Len(users) :
                          /\ users[i].username = u
                          /\ users[i].last_login \in Times \ {NULL}
                          /\ users[i].last_login <= clock
           /\ LastCall.val = <<FALSE>> => users = found
\* The deactivated bob was refused with his own password, and alice then
\* logged in.
C31_Witness ==
    /\ AllIdle
    /\ PrevCall.op = "verifyUser" /\ PrevCall.arg = [u |-> "bob", pw |-> <<"pw2">>]
    /\ ~users[2].is_active
    /\ LastCall.op = "verifyUser" /\ LastCall.ok /\ LastCall.val = <<TRUE>>
    /\ LastCall.arg.u = "alice"
    /\ users[1].last_login = 2

Unsupported(e) == e.failed # <<>> /\ e.failed[1].error = "unsupported"
\* Nothing of what the accounts of alice and bob hold has been removed.
DataIntact ==
    /\ Len(users) = 2
    /\ \A x \in DOMAIN kv : x[3] = AccountKey => kv[x] # <<>>
    /\ \A u \in Names : kvSearch[u] # <<>>
\* C32: on a backend without clearAllData, db.clearAllData() fails with the
\* unsupported-operation error at once, no wipe is started and no data is
\* touched; on a backend that has it, the storage's clearAllData is what runs,
\* and its outcome is the outcome of the call.
C32_ClearAllDataOrUnsupported ==
    /\ backend = "upstash"
          => /\ DataIntact
             /\ \A t \in Tasks : pc[t].op # "clearAllData"
             /\ LastCall.op \in {"db.clearAllData", "clearAllData"}
                   => /\ LastCall.op = "db.clearAllData" /\ ~LastCall.ok
                      /\ Unsupported(LastCall) /\ Len(LastCall.failed) = 1
                      /\ LastCall.pgOut = <<>> /\ LastCall.redisOut = <<>>
    /\ backend \in {"pg", "hybrid"}
          => /\ LastCall.op = "db.clearAllData"
                   => ~LastCall.ok /\ ~Unsupported(LastCall) /\ Db = LastCall.before[1]
             /\ LastCall.op = "clearAllData" /\ backend = "pg"
                   => (LastCall.ok <=> PgWriteDone(LastCall))
             /\ LastCall.op = "clearAllData" /\ backend = "hybrid"
                   => (LastCall.ok <=> BothWiped(LastCall))
\* db.clearAllData() was refused on the Upstash deployment.
C32_Witness ==
    /\ backend = "upstash" /\ dbManager.storage # <<>>
    /\ LastCall.op = "db.clearAllData" /\ ~LastCall.ok /\ Unsupported(LastCall)
    /\ DataIntact

\* C33: setUserInfo(u, info) followed by getUserInfo(u) returns on HybridStorage
\* what it returns on PostgresStorage, which is the UserInfo of the row that
\* the same UPDATE has left in the users table.
C33_StoresInterchangeable ==
    (/\ AllIdle
     /\ PrevCall.op = "setUserInfo" /\ PrevCall.layer = "hybrid" /\ PrevCall.ok
     /\ LastCall.op = "getUserInfo" /\ LastCall.layer = "hybrid" /\ LastCall.ok
     /\ LastCall.arg.u = PrevCall.arg.u)
    => LET relational == PgUserInfo(users, LastCall.arg.u) IN
       IF relational = <<>> THEN LastCall.val = <<>>
       ELSE LastCall.val # <<>> /\ SameInfo(LastCall.val[1], relational[1])

\* ============================================================ form validation
\* A string is the sequence of its characters.
MaxNameLen == 3
MaxPasswordLen == 3
minLength == 3
maxLength == 20
LowerCaseLetters == <<"a", "b", "c", "d", "e", "f", "g", "h", "i", "j", "k", "l", "m", "n", "o", "p", "q", "r", "s", "t", "u", "v", "w", "x", "y", "z">>
UpperCaseLetters == <<"A", "B", "C", "D", "E", "F", "G", "H", "I", "J", "K", "L", "M", "N", "O", "P", "Q", "R", "S", "T", "U", "V", "W", "X", "Y", "Z">>
Digits == {"0", "1", "2", "3", "4", "5", "6", "7", "8", "9"}
Range(s) == {s[i] : i \in 1..Len(s)}
SeqsUpTo(S, n) == UNION {[1..k -> S] : k \in 0..n}
Repeat(c, n) == [i \in 1..n |-> c]
\* String.prototype.toLowerCase
toLowerCase(s) ==
    [i \in 1..Len(s) |->
        IF \E k \in 1..26 : UpperCaseLetters[k] = s[i]
        THEN LowerCaseLetters[CHOOSE k \in 1..26 : UpperCaseLetters[k] = s[i]]
        ELSE s[i]]
\* String.prototype.includes
includes(s, part) ==
    \E i \in 0..Len(s) : i + Len(part) <= Len(s) /\ SubSeq(s, i + 1, i + Len(part)) = part
\* s.split('@'): the pieces between the separators.
RECURSIVE split(_)
split(s) ==
    IF \A i \in 1..Len(s) : s[i] # "@" THEN <<s>>
    ELSE LET at == CHOOSE i \in 1..Len(s) : s[i] = "@" /\ \A j \in 1..(i - 1) : s[j] # "@"
         IN  <<SubSeq(s, 1, at - 1)>> \o split(SubSeq(s, at + 1, Len(s)))
\* /^[a-zA-Z0-9_]+$/.test(username)
WordOnly(username) ==
    /\ username # <<>>
    /\ Range(username) \subseteq
          Range(LowerCaseLetters) \cup Range(UpperCaseLetters) \cup Digits \cup {"_"}
\* /_{2,}/.test(username)
DoubleUnderscore(username) ==
    \E i \in 1..(Len(username) - 1) : username[i] = "_" /\ username[i + 1] = "_"
reservedNames ==
    {<<"a", "d", "m", "i", "n">>,
     <<"a", "d", "m", "i", "n", "i", "s", "t", "r", "a", "t", "o", "r">>,
     <<"r", "o", "o", "t">>,
     <<"s", "y", "s", "t", "e", "m">>,
     <<"a", "p", "i">>,
     <<"w", "w", "w">>,
     <<"m", "a", "i", "l">>,
     <<"e", "m", "a", "i", "l">>,
     <<"s", "u", "p", "p", "o", "r", "t">>,
     <<"h", "e", "l", "p">>,
     <<"i", "n", "f", "o">>,
     <<"c", "o", "n", "t", "a", "c", "t">>,
     <<"u", "s", "e", "r">>,
     <<"u", "s", "e", "r", "s">>,
     <<"g", "u", "e", "s", "t">>,
     <<"p", "u", "b", "l", "i", "c">>,
     <<"p", "r", "i", "v", "a", "t", "e">>,
     <<"t", "e", "s", "t">>,
     <<"d", "e", "m", "o">>,
     <<"e", "x", "a", "m", "p", "l", "e">>,
     <<"n", "u", "l", "l">>,
     <<"u", "n", "d", "e", "f", "i", "n", "e", "d">>,
     <<"t", "r", "u", "e">>,
     <<"f", "a", "l", "s", "e">>}
\* Mutant: a reserved name is recognised only as it is spelled in the list.
IsReserved_CaseSensitive(username) == username \in reservedNames
\* reservedNames.includes(username.toLowerCase())
IsReserved(username) == toLowerCase(username) \in reservedNames
\* errors.push(message) when the test of a rule fails.
PushIf(test, message) == IF test THEN <<message>> ELSE <<>>
\* The messages are named by their rule: "empty" is '用户名不能为空', "min"
\* '用户名至少3个字符', "max" '用户名最多20个字符', "charset"
\* '用户名只能包含字母、数字和下划线', "edge" '用户名不能以下划线开头或结尾',
\* "consecutive" '用户名不能包含连续的下划线', "reserved"
\* '该用户名为系统保留，请选择其他用户名'.
validateUsername(username) ==
    IF username = <<>>
    THEN [isValid |-> FALSE, errors |-> <<"empty">>]
    ELSE LET errors ==
                 PushIf(Len(username) < minLength, "min")
                     \o PushIf(Len(username) > maxLength, "max")
                     \o PushIf(~WordOnly(username), "charset")
                     \o PushIf(username[1] = "_" \/ username[Len(username)] = "_", "edge")
                     \o PushIf(DoubleUnderscore(username), "consecutive")
                     \o PushIf(IsReserved(username), "reserved")
         IN  [isValid |-> errors = <<>>, errors |-> errors]
\* validateSecurityRequirements of src/lib/validation.ts.  The warnings are
\* "contains username" for '密码不应包含用户名', "contains email prefix" for
\* '密码不应包含邮箱前缀' and "contains personal info" for '密码不应包含个人信息'.
\* An email without '@' has no second piece: reading the length of undefined
\* throws a TypeError, unless the loop has left before it gets there.
validateSecurityRequirements(data) ==
    LET password == toLowerCase(data.password)
        emailLocal == split(data.email)[1]
        personal(info) == Len(info) >= 3 /\ includes(password, toLowerCase(info))
        first == PushIf(includes(password, toLowerCase(data.username)), "contains username")
                     \o PushIf(includes(password, toLowerCase(emailLocal)), "contains email prefix")
        warnings(hit) == first \o PushIf(hit, "contains personal info")
    IN  IF personal(data.username) \/ personal(emailLocal)
        THEN [ok |-> TRUE, isSecure |-> FALSE, warnings |-> warnings(TRUE)]
        ELSE IF Len(split(data.email)) < 2
        THEN [ok |-> FALSE, isSecure |-> FALSE, warnings |-> <<"TypeError">>]
        ELSE LET hit == personal(split(data.email)[2])
             IN  [ok |-> TRUE, isSecure |-> warnings(hit) = <<>>, warnings |-> warnings(hit)]
\* validateSecurityRequirements of the second copy of validation.ts
\* (src/unnamed/part_002).  Its warnings are "same as username" for
\* '密码不能与用户名相同' and "same as email" for '密码不能与邮箱相同'.
validateSecurityRequirements_part_002(data) ==
    LET warnings ==
            PushIf(toLowerCase(data.password) = toLowerCase(data.username), "same as username")
                \o PushIf(toLowerCase(data.password) = toLowerCase(data.email), "same as email")
    IN  [ok |-> TRUE, isSecure |-> warnings = <<>>, warnings |-> warnings]
ValidationFiles == {"src/lib/validation.ts", "unnamed/part_002"}
\* The call returns what the function computes; nothing is stored.
Validation_validateUsername(t) ==
    /\ At(t, "validateUsername", "run")
    /\ Finish(t, pc[t], TRUE, <<validateUsername(pc[t].arg.username)>>)
    /\ UNCHANGED <<pgVars, redisVars, envVars>>
Validation_validateSecurityRequirements(t) ==
    /\ At(t, "validateSecurityRequirements", "run")
    /\ LET result == IF pc[t].arg.file = "src/lib/validation.ts"
                     THEN validateSecurityRequirements(pc[t].arg.data)
                     ELSE validateSecurityRequirements_part_002(pc[t].arg.data)
       IN  Finish(t, pc[t], result.ok, <<result>>)
    /\ UNCHANGED <<pgVars, redisVars, envVars>>

\* The names tried: every string of up to MaxNameLen characters over a few
\* letters, a digit, the underscore and a character outside the word class,
\* and names around the length limit and the reserved list.
NameChars == {"a", "p", "i", "A", "1", "_", "-"}
UsernameInputs ==
    SeqsUpTo(NameChars, MaxNameLen)
        \cup {Repeat("a", n) : n \in (maxLength - 1)..(maxLength + 1)}
        \cup {<<"_">> \o Repeat("a", maxLength), Repeat("a", maxLength - 2) \o <<"_", "_", "1">>,
              <<"A", "d", "m", "i", "n">>, <<"r", "o", "o", "t">>, <<"r", "o", "o", "t", "2">>,
              <<"t", "e", "s", "t", "_", "u", "s", "e", "r">>}
SecurityInputs ==
    [username : {<<"a", "b">>, <<"A", "b", "c">>, <<"c">>},
     email : {<<"a", "b", "@", "x">>, <<"c", "a", "b", "@", "b", "c", "a">>, <<"a", "b">>},
     password : SeqsUpTo({"a", "b", "B", "c"}, MaxPasswordLen)
                   \cup {<<"a", "b", "@", "x">>, <<"1", "a", "B", "c", "1">>, <<"b", "c", "a", "1">>}]
\* The validation functions keep no state: a behaviour is one call of one of
\* them on one input.
CallValidation(t) ==
    /\ hist[2] = NoCall
    /\ \/ \E username \in UsernameInputs :
             Call(t, TRUE, "validateUsername", [username |-> username], "run")
       \/ \E data \in SecurityInputs, file \in ValidationFiles :
             Call(t, TRUE, "validateSecurityRequirements", [data |-> data, file |-> file], "run")
InitValidation == Fresh /\ backend = "pg"
NextValidation ==
    \E t \in Tasks :
        \/ CallValidation(t)
        \/ Validation_validateUsername(t)
        \/ Validation_validateSecurityRequirements(t)
SpecValidation == InitValidation /\ [][NextValidation]_vars

\* The rules the claim lists, each under the name of its message.
UsernameRules == {"empty", "min", "max", "charset", "edge", "consecutive", "reserved"}
Violates(name, rule) ==
    CASE rule = "empty" -> Len(name) = 0
      [] rule = "min" -> Len(name) < 3
      [] rule = "max" -> Len(name) > 20
      [] rule = "charset" ->
            \E i \in 1..Len(name) :
                name[i] \notin Range(LowerCaseLetters) \cup Range(UpperCaseLetters)
                                   \cup Digits \cup {"_"}
      [] rule = "edge" -> Len(name) > 0 /\ "_" \in {name[1], name[Len(name)]}
      [] rule = "consecutive" ->
            \E i \in 1..Len(name), j \in 1..Len(name) :
                j = i + 1 /\ name[i] = "_" /\ name[j] = "_"
      [] rule = "reserved" -> \E r \in reservedNames : toLowerCase(name) = toLowerCase(r)
Acceptable(name) == \A rule \in UsernameRules : ~Violates(name, rule)
ValidatedName == LastCall.op = "validateUsername" /\ LastCall.ok
\* C34 as stated: isValid is true exactly when errors is empty and exactly for
\* the names that break none of the rules, and the message of every rule a
\* name breaks is among its errors.
C34_EveryViolatedRuleReported ==
    ValidatedName
        => LET name == LastCall.arg.username
               result == LastCall.val[1]
           IN  /\ result.isValid <=> result.errors = <<>>
               /\ result.isValid <=> Acceptable(name)
               /\ \A rule \in UsernameRules :
                     Violates(name, rule) => rule \in Range(result.errors)
\* C34, amended: as above for a name that is not empty; the empty name is
\* rejected with the single error "empty", the length rule it also breaks is
\* not reported.
C34_EveryViolatedRuleReportedUnlessEmpty ==
    ValidatedName
        => LET name == LastCall.arg.username
               result == LastCall.val[1]
           IN  /\ result.isValid <=> result.errors = <<>>
               /\ result.isValid <=> Acceptable(name)
               /\ name # <<>>
                     => \A rule \in UsernameRules :
                           Violates(name, rule) => rule \in Range(result.errors)
               /\ name = <<>> => result.errors = <<"empty">>
\* '__' was rejected with the three messages of the three rules it breaks.
C34_Witness ==
    /\ ValidatedName
    /\ LastCall.arg.username = <<"_", "_">>
    /\ LastCall.val[1] = [isValid |-> FALSE, errors |-> <<"min", "edge", "consecutive">>]

\* C35: whenever the password contains the username, whatever the case of the
\* letters, validateSecurityRequirements reports isSecure = false with the
\* warning "contains username", and with "contains email prefix" whenever it
\* contains the part of the email before the '@'; isSecure is true exactly when
\* there is no warning.
C35_ContainmentIsWarned ==
    LastCall.op = "validateSecurityRequirements"
        => LET data == LastCall.arg.data
               result == LastCall.val[1]
               password == toLowerCase(data.password)
               Warned(warning) ==
                   LastCall.ok /\ ~result.isSecure /\ warning \in Range(result.warnings)
           IN  /\ includes(password, toLowerCase(data.username)) => Warned("contains username")
               /\ includes(password, toLowerCase(split(data.email)[1]))
                     => Warned("contains email prefix")
               /\ LastCall.ok => (result.isSecure <=> result.warnings = <<>>)

\* The account methods of HybridStorage on alice, one call at a time, with the
\* cache enabled and reachable throughout.
CoherenceInfos == [email : {"a@x.com"}, createdAt : {1}, lastLoginAt : {undefined}]
InitCoherence == Fresh /\ backend = "hybrid"
NextCoherence ==
    \E t \in Tasks :
        \/ CallRegisterUser(t, TRUE, {"alice"}, {<<"pw1">>}, {"a@x.com"})
        \/ CallVerifyUser(t, TRUE, {"alice"}, Passwords)
        \/ CallSetUserInfo(t, TRUE, {"alice"}, CoherenceInfos)
        \/ CallUserWrite(t, TRUE, "updateLastLogin", {"alice"})
        \/ CallUserWrite(t, TRUE, "deleteUser", {"alice"})
        \/ CallUserRead(t, TRUE, "getUserInfo", {"alice"})
        \/ CallUserRead(t, TRUE, "checkUserExist", {"alice"})
        \/ CallRead(t, TRUE, "getAllUsers")
        \/ PostgresStorage_registerUser(t)
        \/ PostgresStorage_verifyUser(t)
        \/ PostgresStorage_setUserInfo(t)
        \/ PostgresStorage_updateLastLogin(t)
        \/ PostgresStorage_deleteUser(t)
        \/ PostgresStorage_getUserInfo(t)
        \/ PostgresStorage_checkUserExist(t)
        \/ PostgresStorage_getAllUsers(t)
        \/ HybridStorage_registerUser(t)
        \/ HybridStorage_verifyUser(t)
        \/ HybridStorage_setUserInfo(t)
        \/ HybridStorage_updateLastLogin(t)
        \/ HybridStorage_deleteUser(t)
        \/ HybridStorage_getUserInfo(t)
        \/ HybridStorage_checkUserExist(t)
        \/ HybridStorage_getAllUsers(t)
SpecCoherence == InitCoherence /\ [][NextCoherence]_vars

Cached(prefix, key) ==
    IF redis[getCacheKey(prefix, key)] = <<>> THEN <<>>
    ELSE <<JSONparse(redis[getCacheKey(prefix, key)][1].value)>>
\* C36: when no call is in flight and no cache operation has failed, a cached
\* userinfo entry of u is what PostgresStorage.getUserInfo(u) returns, a cached
\* user_exists entry is what checkUserExist(u) returns, and the cached
\* users:all list is what getAllUsers() returns.
C36_CacheAgreesWithRelationalStore ==
    (AllIdle /\ cacheEnabled /\ redisUp)
        => /\ \A u \in Names :
                 /\ Cached("userinfo", u) # <<>>
                       => /\ PgUserInfo(users, u) # <<>>
                          /\ SameInfo(Cached("userinfo", u)[1], PgUserInfo(users, u)[1])
                 /\ Cached("user_exists", u) # <<>>
                       => Cached("user_exists", u) = <<Len(SelectUser(users, u)) > 0>>
           /\ Cached("users", "all") # <<>>
                 => Cached("users", "all") = <<SelectActiveUsernames(users)>>

\* The favorites, play records and skip configs of alice on PostgresStorage,
\* written and read back one call at a time under keys without '+' in the
\* source and the item id.
CallGetRecord(t, alone, op, N, K) ==
    \E u \in N, key \in K : Call(t, alone, op, [u |-> u, key |-> key], RecordStart)
InitKeys == InitRecords
NextKeys ==
    \E t \in Tasks :
        \/ CallSetRecord(t, TRUE, "setFavorite", {"alice"}, StorageKeys, Payloads)
        \/ CallSetRecord(t, TRUE, "setPlayRecord", {"alice"}, {AccountKey}, {"p2"})
        \/ CallSetSkipConfig(t, TRUE, {"alice"}, Sources, {<<"i2">>}, {"p1"})
        \/ CallGetRecord(t, TRUE, "getFavorite", {"alice"}, StorageKeys)
        \/ CallGetRecord(t, TRUE, "getPlayRecord", {"alice"}, {AccountKey})
        \/ CallRecordRead(t, TRUE, "getAllFavorites", {"alice"})
        \/ CallRecordRead(t, TRUE, "getAllPlayRecords", {"alice"})
        \/ CallRecordRead(t, TRUE, "getAllSkipConfigs", {"alice"})
        \/ PostgresStorage_setFavorite(t)
        \/ PostgresStorage_setPlayRecord(t)
        \/ PostgresStorage_setSkipConfig(t)
        \/ PostgresStorage_getFavorite(t)
        \/ PostgresStorage_getPlayRecord(t)
        \/ PostgresStorage_getAllFavorites(t)
        \/ PostgresStorage_getAllPlayRecords(t)
        \/ PostgresStorage_getAllSkipConfigs(t)
SpecKeys == InitKeys /\ [][NextKeys]_vars

\* A string without the separator is a single segment.
PlusFree(str) == Len(str) = 1
KeyParts == Sources \cup ItemIds \cup {<<"src", "i1">>, <<"i1", "i2">>}
GetTable == [getFavorite |-> "favorites", getPlayRecord |-> "play_records"]
GetAllTable == [getAllFavorites |-> "favorites", getAllPlayRecords |-> "play_records",
                getAllSkipConfigs |-> "skip_configs"]
\* The rows of user u in a table that were stored under the pairs whose key is k.
Addressed(tbl, u, k) ==
    SelectSeq(tbl, LAMBDA r : r.username = u /\ generateStorageKey(r.source, r.item_id) = k)
\* C37: for sources and item ids without '+', two pairs have one key only when
\* they are one pair, and the pair is read back from its key; getFavorite and
\* getPlayRecord under a key return the data of the one record stored under the
\* pair of that key (null when there is none), which is the payload of a set
\* under the same key just before; the keys of getAllFavorites,
\* getAllPlayRecords and getAllSkipConfigs are the keys of the stored pairs, one
\* for each record, each with the data of its record.
C37_CompositeKeyIsFaithful ==
    /\ \A s \in KeyParts, i \in KeyParts :
          (PlusFree(s) /\ PlusFree(i))
             => /\ SplitSource(generateStorageKey(s, i)) = s
                /\ SplitItemId(generateStorageKey(s, i)) = i
                /\ \A s2 \in KeyParts, i2 \in KeyParts :
                      (PlusFree(s2) /\ PlusFree(i2)
                          /\ generateStorageKey(s, i) = generateStorageKey(s2, i2))
                         => s = s2 /\ i = i2
    /\ (AllIdle /\ LastCall.op \in DOMAIN GetTable /\ LastCall.ok)
          => LET rows == Addressed(records[GetTable[LastCall.op]], LastCall.arg.u,
                                   LastCall.arg.key)
             IN  /\ Len(rows) <= 1
                 /\ LastCall.val = IF Len(rows) = 0 THEN <<>> ELSE <<JSONparse(rows[1].data)>>
                 /\ (/\ PrevCall.op \in DOMAIN SetTable /\ PrevCall.ok
                     /\ SetTable[PrevCall.op] = GetTable[LastCall.op]
                     /\ PrevCall.arg.u = LastCall.arg.u
                     /\ PrevCall.arg.key = LastCall.arg.key)
                       => LastCall.val = <<PrevCall.arg.data>>
    /\ (AllIdle /\ LastCall.op \in DOMAIN GetAllTable /\ LastCall.ok)
          => LET rows == SelectRecordsOf(records[GetAllTable[LastCall.op]], LastCall.arg.u)
                 all == LastCall.val[1]
             IN  /\ DOMAIN all =
                        {generateStorageKey(rows[n].source, rows[n].item_id) : n \in 1..Len(rows)}
                 /\ Cardinality(DOMAIN all) = Len(rows)
                 /\ \A n \in 1..Len(rows) :
                       all[generateStorageKey(rows[n].source, rows[n].item_id)]
                          = JSONparse(rows[n].data)
\* Two favorites were set under two item ids of one source; the second was
\* read back under its key and both keys were listed.
C37_Witness ==
    /\ AllIdle
    /\ Len(records.favorites) = 2
    /\ PrevCall.op = "getFavorite" /\ PrevCall.ok
    /\ PrevCall.arg.key = generateStorageKey(<<"src">>, <<"i2">>)
    /\ LastCall.op = "getAllFavorites" /\ LastCall.ok
    /\ DOMAIN LastCall.val[1] = StorageKeys
    /\ LastCall.val[1][generateStorageKey(<<"src">>, <<"i1">>)] = "p1"
    /\ LastCall.val[1][generateStorageKey(<<"src">>, <<"i2">>)] = "p2"

\* The search histories of alice and bob on PostgresStorage and on
\* HybridStorage: keywords are added and deleted one call at a time.  '' is a
\* keyword like any other string.
InitForget == InitAccounts
NextForget ==
    \E t \in Tasks :
        \/ CallAddSearchHistory(t, TRUE, Names, {"k2"})
        \/ CallAddSearchHistory(t, TRUE, {"alice"}, {""})
        \/ CallDeleteSearchHistory(t, TRUE, Names, {<<>>, <<"k1">>, <<"k2">>, <<"">>})
        \/ PostgresStorage_addSearchHistory(t)
        \/ PostgresStorage_deleteSearchHistory(t)
        \/ HybridStorage_addSearchHistory(t)
        \/ HybridStorage_deleteSearchHistory(t)
SpecForget == InitForget /\ [][NextForget]_vars

\* The keywords of user u, oldest first on PostgresStorage, as listed on
\* HybridStorage.
HistoryOf(sh, ks, u) ==
    IF backend = "pg"
    THEN LET rows == SelectSeq(sh, LAMBDA r : r.username = u)
         IN  [n \in 1..Len(rows) |-> rows[n].keyword]
    ELSE ks[u]
Without(list, k) == SelectSeq(list, LAMBDA x : x # k)
\* C38: deleteSearchHistory(u, k) with a keyword argument removes the entry k of
\* u and no other entry of u; without a keyword it removes all entries of u;
\* either way the histories of the other users and the other data are
\* unchanged, and a step of the call that does not resolve it changes nothing.
C38_DeleteSearchHistoryFrame ==
    [][\A t \in Tasks :
          (pc[t].op = "deleteSearchHistory" /\ pc'[t] # pc[t])
             => LET a == pc[t].arg
                    old(u) == HistoryOf(search_history, kvSearch, u)
                    new(u) == HistoryOf(search_history', kvSearch', u)
                IN  /\ UNCHANGED <<users, admin_config, records, kv, redis>>
                    /\ \A u \in Names \ {a.u} : new(u) = old(u)
                    /\ IF ~Resolves(t) THEN new(a.u) = old(a.u)
                       ELSE IF a.keyword # <<>> THEN new(a.u) = Without(old(a.u), a.keyword[1])
                       ELSE new(a.u) = <<>>]_vars

\* The profile of alice on HybridStorage while the cache is switched off and on:
\* one call at a time, Redis reachable, no entry expiring and no change made
\* behind the store.  A setUserInfo passes the createdAt and lastLoginAt of the
\* row, so that an entry written while the cache is enabled is the value of the
\* row.
SwitchInfos == [email : Emails, createdAt : {1}, lastLoginAt : {undefined}]
InitSwitch == InitHistory /\ backend = "hybrid"
NextSwitch ==
    \E t \in Tasks :
        \/ CallSetUserInfo(t, TRUE, {"alice"}, SwitchInfos)
        \/ CallUserRead(t, TRUE, "getUserInfo", Names)
        \/ \E b \in BOOLEAN : HybridStorage_setCacheEnabled(t, TRUE, b)
        \/ PostgresStorage_setUserInfo(t)
        \/ PostgresStorage_getUserInfo(t)
        \/ HybridStorage_setUserInfo(t)
        \/ HybridStorage_getUserInfo(t)
SpecSwitch == InitSwitch /\ [][NextSwitch]_vars

ReturnsRelational(e) ==
    LET relational == PgUserInfo(users, e.arg.u)
    IN  IF relational = <<>> THEN e.val = <<>>
        ELSE e.val # <<>> /\ SameInfo(e.val[1], relational[1])
ReadInfo == AllIdle /\ LastCall.op = "getUserInfo" /\ LastCall.ok
\* C39: while the cache is disabled a read returns the relational value and
\* no step of a call reads, writes or deletes a cache entry; once the cache is
\* enabled again a read does not return an entry that a write made while the
\* cache was disabled has outdated: it returns the relational value, the
\* entries written while the cache is enabled being the values of the rows.
C39_DisabledCacheIsBypassed ==
    /\ [](ReadInfo => /\ ReturnsRelational(LastCall)
                      /\ ~cacheEnabled => Range(LastCall.cacheLog) \subseteq {"off"})
    /\ [][(~cacheEnabled /\ pc' # pc) => redis' = redis]_vars

\* Logins of alice on HybridStorage while her password is changed and her
\* account is deleted by the other task; Redis is reachable and the cache is
\* enabled throughout.
InitMarker == InitHistory /\ backend = "hybrid"
NextMarker ==
    \E t \in Tasks :
        \/ CallVerifyUser(t, FALSE, {"alice"}, Passwords)
        \/ CallChangePassword(t, FALSE, {"alice"}, {<<"pw2">>})
        \/ CallUserWrite(t, FALSE, "deleteUser", {"alice"})
        \/ PostgresStorage_verifyUser(t)
        \/ PostgresStorage_changePassword(t)
        \/ PostgresStorage_deleteUser(t)
        \/ HybridStorage_verifyUser(t)
        \/ HybridStorage_changePassword(t)
        \/ HybridStorage_deleteUser(t)
SpecMarker == InitMarker /\ [][NextMarker]_vars

LoginMarker(u) == redis[getCacheKey("login", u)]
\* The call changed the password of u or deleted u, and its cache commands ran.
Revoked(e, u) ==
    /\ e.op \in {"changePassword", "deleteUser"} /\ e.arg.u = u
    /\ e.ok /\ CacheWorked(e.cacheLog)
\* The call found u with a password hash that the row of u no longer has.
CalledBeforeChange(e, u) ==
    LET old == SelectUser(e.before[1].users, u)
        now == SelectUser(users, u)
    IN  /\ Len(old) > 0
        /\ Len(now) = 0 \/ now[1].password_hash # old[1].password_hash
\* C40: a login marker of u is created only by the step of a verifyUser(u, p)
\* whose verification succeeded; once changePassword(u, n) or deleteUser(u) has
\* completed there is no login marker of u, also when a verifyUser of u that was
\* called before the change took effect completes after it.
C40_LoginMarkerOnlyFromValidLogin ==
    /\ [][\A u \in Names :
             (LoginMarker(u) = <<>> /\ LoginMarker(u)' # <<>>)
                => \E t \in Tasks :
                      /\ At(t, "verifyUser", "set_login") /\ pc[t].arg.u = u
                      /\ pc[t].pgOut # <<>> /\ pc[t].pgOut[1].val = <<TRUE>>
                      /\ pc'[t].op = "idle"]_vars
    /\ [](\A u \in Names :
             /\ Revoked(LastCall, u) => LoginMarker(u) = <<>>
             /\ (/\ Revoked(PrevCall, u)
                 /\ LastCall.op = "verifyUser" /\ LastCall.arg.u = u
                 /\ CalledBeforeChange(LastCall, u))
                   => LoginMarker(u) = <<>>)
====
